---- MODULE Spec2Model ----
(***************************************************************************)
(* appium-client: the polling wait (src/wait.rs), the find API and the     *)
(* locator wire mapping (src/find.rs), the routing of commands             *)
(* (src/commands.rs) and the end of a Client (src/lib.rs).                 *)
(*                                                                         *)
(* Durations and instants are in milliseconds.  The clock `now` moves only *)
(* while the wait task is suspended: during a lookup (by the latency of    *)
(* the request) and inside interval.tick().                                *)
(***************************************************************************)
EXTENDS Integers, Sequences, FiniteSets, TLC

VARIABLES
    \* ---- wait.rs ----
    wait,           \* the Wait value: [client, timeout, check_delay]
    lastAtMost,     \* the argument of the latest at_most call, if any
    lastCheckEvery, \* the argument of the latest check_every call, if any
    pc,             \* position of the caller's task
    target,         \* "single" (WaitOnSingle) or "multiple" (WaitOnMultiple)
    script,         \* the server: response to the k-th lookup (the last repeats)
    timeout,        \* wait(): let timeout = wait.timeout
    interval,       \* wait(): the tokio Interval [period, deadline]
    start,          \* wait(): let start = Instant::now()
    now,            \* the clock
    attempts,       \* lookups issued so far
    nNone,          \* lookups that reported no-such-element so far
    latNone,        \* total time taken by those lookups
    checkElapsed,   \* start.elapsed() as read by the latest deadline check
    lastLocate,     \* what locate() returned for the latest lookup
    slept,          \* time spent in the latest interval.tick()
    result,         \* what the wait returned
    \* ---- find.rs ----
    by,             \* the locator
    params,         \* LocatorParameters::from(by)
    body,           \* the serialized locator
    fpc,            \* position of the conversion
    ctor,           \* the By constructor the caller used, if any
    \* ---- commands.rs ----
    base_url,       \* the URL of the Appium server
    session_id,     \* the session id the transport holds, if any
    cmd,            \* the AppiumCommand being issued
    url,            \* what endpoint() produced for it
    request,        \* what method_and_body() produced for it
    cpc,            \* position of the command in issue_cmd
    \* ---- find.rs: decoding ----
    reply,          \* what issue_cmd returned for a find command
    decoded,        \* what find_by / find_all_by made of it
    dpc,            \* position of the decoding
    \* ---- lib.rs: Client ----
    handle,         \* the Client value: "alive" or "dropped"
    task,           \* position of the task spawned by drop()
    wire,           \* the requests sent to the server, in order
    teardown,       \* how the two steps of the task of drop() ended
    log,            \* the messages the task logged with error!
    \* ---- wait.rs: two waits on one client ----
    waits,          \* the state of each of the two waits
    clock,          \* the clock they both read
    \* ---- commands/rotation.rs ----
    rotIn,          \* the arguments of DeviceRotation::new, or the reply of the server
    rotOut,         \* what new() or rotation() returned
    rotSent,        \* the rotation set_rotation posted, if any
    rpc,            \* position of the caller
    \* ---- commands/recording.rs ----
    recArgs,        \* the arguments of start_recording
    recOut,         \* what start_recording returned
    recWire,        \* the requests it sent to the server, in order
    recpc,          \* position of the call
    \* ---- commands/battery.rs ----
    platform,       \* the capabilities of the client: "android" or "ios"
    info,           \* what battery_info() returned
    probes,         \* what state() and the CanBeCharged methods return for it
    bpc             \* position of the caller

vars == <<wait, lastAtMost, lastCheckEvery, pc, target, script, timeout, interval,
          start, now, attempts, nNone, latNone, checkElapsed, lastLocate, slept,
          result, by, params, body, fpc, ctor,
          base_url, session_id, cmd, url, request, cpc, reply, decoded, dpc,
          handle, task, wire, teardown, log, waits, clock,
          rotIn, rotOut, rotSent, rpc, recArgs, recOut, recWire, recpc,
          platform, info, probes, bpc>>

waitVars == <<wait, lastAtMost, lastCheckEvery, pc, target, script, timeout, interval,
              start, now, attempts, nNone, latNone, checkElapsed, lastLocate, slept,
              result>>

findVars == <<by, params, body, fpc, ctor>>

cmdVars == <<base_url, session_id, cmd, url, request, cpc>>

decodeVars == <<reply, decoded, dpc>>

dropVars == <<handle, task, wire, teardown, log>>

pairVars == <<waits, clock>>

rotVars == <<rotIn, rotOut, rotSent, rpc>>

recVars == <<recArgs, recOut, recWire, recpc>>

batVars == <<platform, info, probes, bpc>>

deviceVars == <<rotVars, recVars, batVars>>

\* what the steps of one part of the program leave alone
otherVars == <<pairVars, deviceVars>>
exceptWait == <<findVars, cmdVars, decodeVars, dropVars, otherVars>>
exceptFind == <<waitVars, cmdVars, decodeVars, dropVars, otherVars>>
exceptCmd == <<waitVars, findVars, decodeVars, dropVars, otherVars>>
exceptDecode == <<waitVars, findVars, cmdVars, dropVars, otherVars>>
exceptDrop == <<waitVars, findVars, decodeVars, otherVars>>
exceptPair == <<waitVars, findVars, cmdVars, decodeVars, dropVars, deviceVars>>
exceptRot == <<waitVars, findVars, cmdVars, decodeVars, dropVars, pairVars, recVars, batVars>>
exceptRec == <<waitVars, findVars, cmdVars, decodeVars, dropVars, pairVars, rotVars, batVars>>
exceptBat == <<waitVars, findVars, cmdVars, decodeVars, dropVars, pairVars, rotVars, recVars>>

(***************************************************************************)
(* Bounds                                                                  *)
(***************************************************************************)
\* durations a caller passes to at_most / check_every: 0 .. MaxDur poll periods
MaxDur == 3
\* a lookup takes 0 .. MaxLat half poll periods
MaxLat == 5
\* the server's script has 1 .. MaxScript responses
MaxScript == 4

(***************************************************************************)
(* Program constants                                                       *)
(***************************************************************************)
DefaultTimeout == 30000
DefaultCheckDelay == 250

Durations == {k * DefaultCheckDelay : k \in 0..MaxDur}
Latencies == {k * (DefaultCheckDelay \div 2) : k \in 0..MaxLat}
\* time between Instant::now() and the first start.elapsed(): none, or a moment
StartDelays == {0, 1}
\* no lookup is started later than this after the wait began: every wait whose
\* timeout was set by the caller runs to its end, one with the default timeout of
\* 30 s is followed up to here
Horizon == (MaxDur + MaxScript) * DefaultCheckDelay

Clients == {"client"}

(***************************************************************************)
(* JSON values of the transport                                            *)
(***************************************************************************)
\* an object is a set of members: <<key, value>> for a string value,
\* <<key, value, "number">> for a number
ObjA == {<<"ELEMENT", "a">>}
ObjB == {<<"ELEMENT", "b">>}
ObjW3C == {<<"element-6066-11e4-a52e-4f735466cecf", "c">>}
ObjStatus == {<<"status", "7", "number">>}
ObjARect == {<<"ELEMENT", "a">>, <<"x", "12", "number">>}

JsonObj(o) == [t |-> "obj", o |-> o, a |-> <<>>]
JsonArr(a) == [t |-> "arr", o |-> {}, a |-> a]

\* what issue_cmd returns: a JSON value or a CmdError
RespOk(v) == [err |-> "", value |-> v]
RespErr(e) == [err |-> e, value |-> JsonObj({})]

HasKey(o, k) == \E p \in o : p[1] = k
\* whether from_value::<HashMap<String, String>> accepts the object
IsStringMap(o) == \A p \in o : Len(p) = 2
Get(o, k) == (CHOOSE p \in o : p[1] = k)[2]

(***************************************************************************)
(* find.rs: AppiumFind for Client                                          *)
(***************************************************************************)
Ok(elems) == [tag |-> "Ok", err |-> "", elems |-> elems]
Err(e) == [tag |-> "Err", err |-> e, elems |-> <<>>]
Pending == [tag |-> "Pending", err |-> "", elems |-> <<>>]

\* as find_by, a reply without the marker reported as no such element
find_by_absent(resp) ==
    IF resp.err # "" THEN Err(resp.err)
    ELSE IF resp.value.t # "obj" \/ ~IsStringMap(resp.value.o) THEN Err("Json")
    ELSE IF ~HasKey(resp.value.o, "ELEMENT") THEN Err("NoSuchElement")
    ELSE Ok(<<Get(resp.value.o, "ELEMENT")>>)

\* find_by: issue_cmd(..)?, from_value::<HashMap>(..)?, map.get("ELEMENT")
find_by(resp) ==
    IF resp.err # "" THEN Err(resp.err)
    ELSE IF resp.value.t # "obj" \/ ~IsStringMap(resp.value.o) THEN Err("Json")
    ELSE IF ~HasKey(resp.value.o, "ELEMENT") THEN Err("NotW3C")
    ELSE Ok(<<Get(resp.value.o, "ELEMENT")>>)

\* as FilterMapElement, an entry without the marker ending the list
RECURSIVE TakeWhileElement(_)
TakeWhileElement(a) ==
    IF a = <<>> \/ ~HasKey(Head(a), "ELEMENT") THEN <<>>
    ELSE <<Get(Head(a), "ELEMENT")>> \o TakeWhileElement(Tail(a))

RECURSIVE FilterMapElement(_)
\* result.into_iter().filter_map(|map| map.get("ELEMENT").cloned())
FilterMapElement(a) ==
    IF a = <<>> THEN <<>>
    ELSE (IF HasKey(Head(a), "ELEMENT") THEN <<Get(Head(a), "ELEMENT")>> ELSE <<>>)
         \o FilterMapElement(Tail(a))

\* find_all_by: issue_cmd(..)?, from_value::<Vec<HashMap>>(..)?, filter_map, Ok
find_all_by(resp) ==
    IF resp.err # "" THEN Err(resp.err)
    ELSE IF resp.value.t # "arr" THEN Err("Json")
    ELSE IF \E i \in 1..Len(resp.value.a) : ~IsStringMap(resp.value.a[i]) THEN Err("Json")
    ELSE Ok(FilterMapElement(resp.value.a))

(***************************************************************************)
(* wait.rs                                                                 *)
(***************************************************************************)
\* what locate() returns: Ok(Some(..)), Ok(None) or Err(..)
Some(elems) == [tag |-> "Some", err |-> "", elems |-> elems]
NoneYet == [tag |-> "None", err |-> "", elems |-> <<>>]
LocErr(e) == [tag |-> "Err", err |-> e, elems |-> <<>>]
NotLocated == [tag |-> "NotLocated", err |-> "", elems |-> <<>>]

\* as MatchFound, the not-found error passed on like any other error
MatchFoundPropagate(r) ==
    IF r.tag = "Ok" THEN Some(r.elems) ELSE LocErr(r.err)

\* as MatchFound, every error taken for "not found yet"
MatchFoundRetryAll(r) ==
    IF r.tag = "Ok" THEN Some(r.elems) ELSE NoneYet

\* the match of find_element / find_all_elements over the find result
MatchFound(r) ==
    IF r.tag = "Ok" THEN Some(r.elems)
    ELSE IF r.err = "NoSuchElement" THEN NoneYet
    ELSE LocErr(r.err)

find_element(resp) == MatchFound(find_by(resp))

\* as find_all_elements, an empty list taken for "not found yet"
find_all_elements_nonempty(resp) ==
    IF find_all_by(resp).tag = "Ok" /\ find_all_by(resp).elems = <<>>
    THEN NoneYet
    ELSE MatchFound(find_all_by(resp))

find_all_elements(resp) == MatchFound(find_all_by(resp))

\* WaitOnSingle::locate / WaitOnMultiple::locate
locate(tgt, resp) ==
    IF tgt = "single" THEN find_element(resp) ELSE find_all_elements(resp)

\* appium_wait()
appium_wait(client) ==
    [client |-> client, timeout |-> DefaultTimeout, check_delay |-> DefaultCheckDelay]

\* as at_most, the poll interval overwritten too
at_most_both(w, d) == [w EXCEPT !.timeout = d, !.check_delay = d]

\* Wait::at_most
at_most(w, d) == [w EXCEPT !.timeout = d]

\* Wait::check_every
check_every(w, d) == [w EXCEPT !.check_delay = d]

\* start.elapsed()
Elapsed == now - start

\* as Exceeded, the timeout taken as exceeded once it is reached
ExceededOrReached(elapsed, t) == elapsed >= t

\* as Exceeded, the operands of the comparison exchanged
ExceededSwapped(elapsed, t) == t > elapsed

\* if start.elapsed() > timeout
Exceeded(elapsed, t) == elapsed > t

\* as LoopTimeout, the other Duration field read
LoopTimeoutDelay(w) == w.check_delay

\* as LoopTimeout, one more poll interval granted
LoopTimeoutGrace(w) == w.timeout + w.check_delay

\* wait(): let timeout = wait.timeout
LoopTimeout(w) == w.timeout

\* wait(): interval(wait.check_delay); the first tick completes at once
NewInterval(period, at) == [period |-> period, deadline |-> at]

\* Interval::tick with the default MissedTickBehavior::Burst: completes at the
\* deadline, or at once when the deadline has passed
TickEnd(iv, t) == IF iv.deadline > t THEN iv.deadline ELSE t

NextDeadline(iv) == [iv EXCEPT !.deadline = iv.deadline + iv.period]

\* the responses of the server in the model
SingleResponses ==
    {RespOk(JsonObj(ObjA)), RespOk(JsonObj(ObjW3C)),
     RespErr("NoSuchElement"), RespErr("Lost")}

MultiResponses ==
    {RespOk(JsonArr(<<>>)), RespOk(JsonArr(<<ObjA, ObjW3C, ObjB>>)),
     RespOk(JsonObj(ObjA)), RespErr("NoSuchElement"), RespErr("Lost")}

\* the loop asks for no response after the first that is not no-such-element
\* (lines 177-179), so a script is no-such-element up to its last response
Scripts(R) ==
    {[i \in 1..n |-> IF i < n THEN RespErr("NoSuchElement") ELSE r] :
        n \in 1..MaxScript, r \in R}

\* the server's response to the k-th lookup
Response(k) == script[IF k < Len(script) THEN k ELSE Len(script)]

Unset == [given |-> FALSE, d |-> 0]
Given(d) == [given |-> TRUE, d |-> d]

(***************************************************************************)
(* find.rs: By and LocatorParameters                                       *)
(***************************************************************************)
Variants ==
    {"Id", "Name", "Xpath", "UiAutomator", "AndroidDataMatcher", "AndroidViewMatcher",
     "AndroidViewTag", "IosClassChain", "IosNsPredicate", "AccessibilityId",
     "ClassName", "Image", "Custom"}

\* the query strings and the custom strategy names of the model
Queries == {"", "Go", "//a[1]"}
Kinds == {"", "id", "-my strategy"}

\* By::V(value); By::CustomKind(kind, value)
By(variant, value) == [variant |-> variant, kind |-> "", value |-> value]
CustomKind(kind, value) == [variant |-> "CustomKind", kind |-> kind, value |-> value]

ByValues ==
    {By(v, q) : v \in Variants, q \in Queries}
    \cup {CustomKind(k, q) : k \in Kinds, q \in Queries}

LocatorParameters(using, value) == [using |-> using, value |-> value]

\* as UsingOf, every variant taking its tag from the kind field
UsingOfKindField(val) == val.kind

\* impl From<By> for LocatorParameters: the `using` of the match
UsingOf(val) ==
    CASE val.variant = "Id" -> "id"
      [] val.variant = "Name" -> "name"
      [] val.variant = "Xpath" -> "xpath"
      [] val.variant = "UiAutomator" -> "-android uiautomator"
      [] val.variant = "AndroidDataMatcher" -> "-android datamatcher"
      [] val.variant = "AndroidViewMatcher" -> "-android viewmatcher"
      [] val.variant = "AndroidViewTag" -> "-android viewtag"
      [] val.variant = "IosClassChain" -> "-ios class chain"
      [] val.variant = "IosNsPredicate" -> "-ios predicate string"
      [] val.variant = "AccessibilityId" -> "accessibility id"
      [] val.variant = "Image" -> "-image"
      [] val.variant = "ClassName" -> "class name"
      [] val.variant = "Custom" -> "-custom"
      [] val.variant = "CustomKind" -> val.kind

\* as FromBy, the two fields of the struct exchanged
FromByExchanged(val) == LocatorParameters(val.value, UsingOf(val))

\* impl From<By> for LocatorParameters
FromBy(val) == LocatorParameters(UsingOf(val), val.value)

\* #[derive(Serialize)] struct LocatorParameters: {"using": .., "value": ..}
SerializeParams(p) == {<<"using", p.using>>, <<"value", p.value>>}

\* impl Serialize for By: self.clone().into(), then serialize the parameters
SerializeBy(b) == SerializeParams(FromBy(b))

NoParams == LocatorParameters("", "")

\* impl By: the public constructors
Constructors ==
    {"id", "name", "xpath", "uiautomator", "android_data_matcher",
     "android_view_matcher", "android_view_tag", "ios_class_chain",
     "ios_ns_predicate", "accessibility_id", "class_name", "image", "custom"}

id(q) == By("Id", q)
name(q) == By("Name", q)
xpath(query) == By("UiAutomator", query)
uiautomator(query) == By("UiAutomator", query)
android_data_matcher(query) == By("AndroidDataMatcher", query)
android_view_matcher(query) == By("AndroidViewMatcher", query)
android_view_tag(query) == By("AndroidViewTag", query)
ios_class_chain(query) == By("IosClassChain", query)
ios_ns_predicate(query) == By("IosNsPredicate", query)
accessibility_id(q) == By("AccessibilityId", q)
class_name(q) == By("ClassName", q)
image(base64_template) == By("Image", base64_template)
custom(query) == By("Custom", query)
custom_kind(using, value) == CustomKind(using, value)

\* By::c(q) for the constructor named c
Construct(c, q) ==
    CASE c = "id" -> id(q)
      [] c = "name" -> name(q)
      [] c = "xpath" -> xpath(q)
      [] c = "uiautomator" -> uiautomator(q)
      [] c = "android_data_matcher" -> android_data_matcher(q)
      [] c = "android_view_matcher" -> android_view_matcher(q)
      [] c = "android_view_tag" -> android_view_tag(q)
      [] c = "ios_class_chain" -> ios_class_chain(q)
      [] c = "ios_ns_predicate" -> ios_ns_predicate(q)
      [] c = "accessibility_id" -> accessibility_id(q)
      [] c = "class_name" -> class_name(q)
      [] c = "image" -> image(q)
      [] c = "custom" -> custom(q)

\* a constructor call: its name and its arguments
Call(c, using, q) == [name |-> c, using |-> using, query |-> q]
NoCall == Call("", "", "")

FindIdle ==
    /\ by = By("Id", "")
    /\ params = NoParams
    /\ body = {}
    /\ fpc = "idle"
    /\ ctor = NoCall

(***************************************************************************)
(* url::Url and Url::join, as far as commands.rs uses them                 *)
(***************************************************************************)
\* an http URL: its authority and the segments of its path; a path that ends
\* with "/" has "" as its last segment
Url(host, path) == [host |-> host, path |-> path]
NoUrl == Url("", <<>>)

\* Result<Url, ParseError>, and the panic of an unwrap
UrlOk(u) == [tag |-> "Ok", err |-> "", url |-> u]
UrlErr(e) == [tag |-> "Err", err |-> e, url |-> NoUrl]
Panicked == [tag |-> "Panic", err |-> "", url |-> NoUrl]
NotRouted == [tag |-> "None", err |-> "", url |-> NoUrl]

\* a parsed URL reference: a relative path ("rel"), a path from the root
\* ("abs"), a URL of its own ("url"), or input the parser rejects ("bad")
Ref(k, host, segs) == [k |-> k, host |-> host, segs |-> segs]

\* the strings joined by endpoint(), as the parser of Url::join reads them
ParseRef(input) ==
    CASE input = "" -> Ref("rel", "", <<>>)
      [] input = "element" -> Ref("rel", "", <<"element">>)
      [] input = "elements" -> Ref("rel", "", <<"elements">>)
      [] input = "session/abc/" -> Ref("rel", "", <<"session", "abc", "">>)
      [] input = "session/s-1/" -> Ref("rel", "", <<"session", "s-1", "">>)
      [] input = "session/../" -> Ref("rel", "", <<"session", "..", "">>)
      [] input = "e1" -> Ref("rel", "", <<"e1">>)
      [] input = "e2" -> Ref("rel", "", <<"e2">>)
      [] input = "/e1" -> Ref("abs", "", <<"e1">>)
      [] input = "status" -> Ref("rel", "", <<"status">>)
      [] input = "appium/device/lock" -> Ref("rel", "", <<"appium", "device", "lock">>)
      [] input = "/status" -> Ref("abs", "", <<"status">>)
      [] input = "../status" -> Ref("rel", "", <<"..", "status">>)
      [] input = "http://evil.example/x" -> Ref("url", "evil.example", <<"x">>)
      [] input = "//" -> Ref("bad", "", <<>>)

Front(path) == SubSeq(path, 1, Len(path) - 1)

RECURSIVE ParsePath(_, _)
\* the path parser: pushes the segments of the input onto the path; ".."
\* pops one, "." pushes nothing, either leaves a "/" when it comes last
ParsePath(path, segs) ==
    IF segs = <<>> THEN path
    ELSE LET slash == IF Len(segs) = 1 THEN <<"">> ELSE <<>> IN
         IF Head(segs) = ".."
         THEN ParsePath((IF path = <<>> THEN <<>> ELSE Front(path)) \o slash, Tail(segs))
         ELSE IF Head(segs) = "."
         THEN ParsePath(path \o slash, Tail(segs))
         ELSE ParsePath(Append(path, Head(segs)), Tail(segs))

\* as Join, a relative path appended to the whole path of this URL
JoinAppend(base, input) ==
    LET r == ParseRef(input) IN
    IF r.k = "bad" THEN UrlErr("EmptyHost")
    ELSE UrlOk(Url(base.host, ParsePath(base.path, r.segs)))

\* Url::join: the input is resolved as a reference against this URL
Join(base, input) ==
    LET r == ParseRef(input) IN
    CASE r.k = "bad" -> UrlErr("EmptyHost")
      [] r.k = "url" -> UrlOk(Url(r.host, ParsePath(<<>>, r.segs)))
      [] r.k = "abs" -> UrlOk(Url(base.host, ParsePath(<<>>, r.segs)))
      [] r.k = "rel" ->
            IF r.segs = <<>> THEN UrlOk(base)
            ELSE UrlOk(Url(base.host, ParsePath(Front(base.path), r.segs)))

\* result.and_then(|url| url.join(input))
AndThenJoin(res, input) == IF res.tag = "Ok" THEN Join(res.url, input) ELSE res

(***************************************************************************)
(* commands.rs: AppiumCommand                                              *)
(***************************************************************************)
\* Option<&str>, Option<Value>, Option<String>
SomeId(s) == [some |-> TRUE, id |-> s]
NoId == [some |-> FALSE, id |-> ""]
SomeValue(v) == [some |-> TRUE, v |-> v]
NoValue == [some |-> FALSE, v |-> JsonObj({})]
SomeText(t) == [some |-> TRUE, text |-> t]
NoText == [some |-> FALSE, text |-> <<>>]

Command(variant, b, context, method, command, value) ==
    [variant |-> variant, by |-> b, context |-> context, method |-> method,
     command |-> command, value |-> value]

FindElement(b) == Command("FindElement", b, "", "", "", NoValue)
FindElementWithContext(b, context) ==
    Command("FindElementWithContext", b, context, "", "", NoValue)
FindElements(b) == Command("FindElements", b, "", "", "", NoValue)
FindElementsWithContext(b, context) ==
    Command("FindElementsWithContext", b, context, "", "", NoValue)
Custom(method, command, value) ==
    Command("Custom", By("Id", ""), "", method, command, value)
NoCommand == Command("", By("Id", ""), "", "", "", NoValue)

\* fn endpoint(&self, base_url, session_id)
endpoint(self, base, session) ==
    IF ~session.some THEN Panicked
    ELSE LET b == Join(base, "session/" \o session.id \o "/") IN
         IF b.tag = "Err" THEN b
         ELSE CASE self.variant = "FindElement" -> Join(b.url, "element")
                [] self.variant = "FindElements" -> Join(b.url, "elements")
                [] self.variant = "FindElementWithContext" ->
                      AndThenJoin(AndThenJoin(Join(b.url, "element"), self.context),
                                  "element")
                [] self.variant = "FindElementsWithContext" ->
                      AndThenJoin(AndThenJoin(Join(b.url, "element"), self.context),
                                  "elements")
                [] self.variant = "Custom" -> Join(b.url, self.command)

\* JSON text: a sequence of tokens, punctuation and string literals
Punct(c) == [k |-> "punct", s |-> c]
Str(s) == [k |-> "string", s |-> s]

\* as to_string, the enum serialized by variant name: {"Id": "Go"}
to_string_variant(b) ==
    <<Punct("{"), Str(b.variant), Punct(":"), Str(b.value), Punct("}")>>

\* serde_json::to_string(&by): the derived serializer writes the fields of
\* LocatorParameters in the order of their declaration
to_string(b) ==
    <<Punct("{"), Str("using"), Punct(":"), Str(FromBy(b).using), Punct(","),
      Str("value"), Punct(":"), Str(FromBy(b).value), Punct("}")>>

\* Value::to_string, for the objects of the model (at most one member)
ValueToString(v) ==
    IF v.o = {} THEN <<Punct("{"), Punct("}")>>
    ELSE LET p == CHOOSE m \in v.o : TRUE IN
         <<Punct("{"), Str(p[1]), Punct(":"), Str(p[2]), Punct("}")>>

Request(method, text) == [method |-> method, body |-> text]
NoRequest == Request("", NoText)

\* as method_and_body, a custom command sent by POST
method_and_body_post(self) ==
    IF self.variant = "Custom"
    THEN Request("POST",
                 IF self.value.some THEN SomeText(ValueToString(self.value.v))
                 ELSE NoText)
    ELSE Request("POST", SomeText(to_string(self.by)))

\* fn method_and_body(&self, _request_url)
method_and_body(self) ==
    IF self.variant = "Custom"
    THEN Request(self.method,
                 IF self.value.some THEN SomeText(ValueToString(self.value.v))
                 ELSE NoText)
    ELSE Request("POST", SomeText(to_string(self.by)))

\* the servers, sessions, element ids, methods, paths and bodies of the model
BaseUrls == {Url("localhost:4723", <<"">>), Url("localhost:4723", <<"wd", "hub", "">>)}
SessionIds == {SomeId("abc"), SomeId("s-1"), SomeId(".."), NoId}
Contexts == {"e1", "e2", "/e1"}
Methods == {"GET", "POST", "DELETE"}
CustomPaths ==
    {"", "status", "appium/device/lock", "/status", "../status",
     "http://evil.example/x", "//"}
CustomValues ==
    {NoValue, SomeValue(JsonObj({})), SomeValue(JsonObj({<<"action", "lock">>}))}

CmdIdle ==
    /\ base_url = Url("localhost:4723", <<"">>)
    /\ session_id = NoId
    /\ cmd = NoCommand
    /\ url = NotRouted
    /\ request = NoRequest
    /\ cpc = "idle"

DecodeIdle ==
    /\ reply = RespErr("NoSuchElement")
    /\ decoded = Pending
    /\ dpc = "idle"

\* a Client that is not dropped
ClientAlive ==
    /\ handle = "alive"
    /\ task = "none"
    /\ wire = <<>>
    /\ teardown = [ended |-> "no", closed |-> "no"]
    /\ log = <<>>

\* the two waits of a caller, before either is built
WaitIds == {1, 2}

NoWait ==
    [pc |-> "builder", wait |-> appium_wait("client"), target |-> "single",
     script |-> <<RespErr("NoSuchElement")>>, timeout |-> 0,
     interval |-> NewInterval(0, 0), start |-> 0, attempts |-> 0, lats |-> <<>>,
     wake |-> 0, result |-> Pending]

PairIdle ==
    /\ waits = [i \in WaitIds |-> NoWait]
    /\ clock = 0

\* a rotation, and the two results of the rotation commands
DeviceRotation(x, y, z) == [x |-> x, y |-> y, z |-> z]
NoRotation == [x |-> 0 - 1, y |-> 0 - 1, z |-> 0 - 1]
RotOk(r) == [tag |-> "Ok", err |-> "", arg |-> "", rot |-> r]
RotErr(e, arg) == [tag |-> "Err", err |-> e, arg |-> arg, rot |-> NoRotation]
RotPending == [tag |-> "Pending", err |-> "", arg |-> "", rot |-> NoRotation]

RotIdle ==
    /\ rotIn = <<>>
    /\ rotOut = RotPending
    /\ rotSent = NoRotation
    /\ rpc = "caller"

\* an optional argument
Arg(v) == [some |-> TRUE, v |-> v]
Absent == [some |-> FALSE]

\* ScreenRecordingUploadOptions, its optional maps left out
UploadOptions(remote_path, credentials, method, file_field_name) ==
    [remote_path |-> remote_path, credentials |-> credentials, method |-> method,
     file_field_name |-> file_field_name]
\* ScreenRecordingUploadOptions::empty()
empty == UploadOptions(Absent, Absent, Absent, Absent)

\* the arguments of IOSCanRecordScreen::start_recording
RecordingArgs(codec, quality, fps, scale, filters, force_restart, time_limit, options) ==
    [video_codec |-> codec, video_quality |-> quality, fps |-> fps,
     video_scale |-> scale, video_filters |-> filters,
     force_restart |-> force_restart, time_limit |-> time_limit, options |-> options]
NoArgs == RecordingArgs(Absent, Absent, Absent, Absent, Absent, Absent, Absent, empty)

RecOk(v) == [tag |-> "Ok", err |-> "", arg |-> "", v |-> v]
RecErr(e, arg) == [tag |-> "Err", err |-> e, arg |-> arg, v |-> ""]
RecPending == [tag |-> "Pending", err |-> "", arg |-> "", v |-> ""]

RecIdle ==
    /\ recArgs = NoArgs
    /\ recOut = RecPending
    /\ recWire = <<>>
    /\ recpc = "caller"

\* what battery_info() returns
InfoOk(m) == [tag |-> "Ok", err |-> "", inner |-> m]
InfoErr(e) == [tag |-> "Err", err |-> e, inner |-> {}]
InfoPending == [tag |-> "Pending", err |-> "", inner |-> {}]

Probes(state, is_full, is_charging, is_plugged, is_invalid) ==
    [state |-> state, is_full |-> is_full, is_charging |-> is_charging,
     is_plugged |-> is_plugged, is_invalid |-> is_invalid]
NoProbes == Probes("", FALSE, FALSE, FALSE, FALSE)

BatIdle ==
    /\ platform = "android"
    /\ info = InfoPending
    /\ probes = NoProbes
    /\ bpc = "caller"

DeviceIdle == RotIdle /\ RecIdle /\ BatIdle

\* the parts of the program that a specification of another part leaves idle
OthersIdle == PairIdle /\ DeviceIdle

WaitIdle ==
    /\ \E c \in Clients : wait = appium_wait(c)
    /\ lastAtMost = Unset
    /\ lastCheckEvery = Unset
    /\ pc = "builder"
    /\ target = "single"
    /\ script = <<RespErr("NoSuchElement")>>
    /\ timeout = 0
    /\ interval = NewInterval(0, 0)
    /\ start = 0
    /\ now = 0
    /\ attempts = 0
    /\ nNone = 0
    /\ latNone = 0
    /\ checkElapsed = 0
    /\ lastLocate = NotLocated
    /\ slept = 0
    /\ result = Pending

Init ==
    /\ WaitIdle
    /\ FindIdle
    /\ CmdIdle
    /\ DecodeIdle
    /\ ClientAlive
    /\ OthersIdle

loopVars == <<timeout, interval, start, now, attempts, nNone, latNone, checkElapsed,
              lastLocate, slept, result>>

\* .at_most(d)
AtMost ==
    /\ pc = "builder"
    /\ \E d \in Durations :
        /\ wait' = at_most(wait, d)
        /\ lastAtMost' = Given(d)
    /\ UNCHANGED <<lastCheckEvery, pc, target, script, loopVars, exceptWait>>

\* .check_every(d)
CheckEvery ==
    /\ pc = "builder"
    /\ \E d \in Durations :
        /\ wait' = check_every(wait, d)
        /\ lastCheckEvery' = Given(d)
    /\ UNCHANGED <<lastAtMost, pc, target, script, loopVars, exceptWait>>

\* wait(), lines 165-169: interval(period) panics when the period is zero
WaitBegin ==
    IF wait.check_delay = 0
    THEN /\ pc' = "panicked"
         /\ UNCHANGED <<timeout, interval, start, now>>
    ELSE /\ pc' = "check"
         /\ interval' = NewInterval(wait.check_delay, now)
         /\ timeout' = LoopTimeout(wait)
         /\ start' = now
         /\ \E d \in StartDelays : now' = now + d

\* .for_element(search)
ForElement ==
    /\ pc = "builder"
    /\ target' = "single"
    /\ \E s \in Scripts(SingleResponses) : script' = s
    /\ WaitBegin
    /\ UNCHANGED <<wait, lastAtMost, lastCheckEvery, attempts, nNone, latNone,
                   checkElapsed, lastLocate, slept, result, exceptWait>>

\* .for_elements(search)
ForElements ==
    /\ pc = "builder"
    /\ target' = "multiple"
    /\ \E s \in Scripts(MultiResponses) : script' = s
    /\ WaitBegin
    /\ UNCHANGED <<wait, lastAtMost, lastCheckEvery, attempts, nNone, latNone,
                   checkElapsed, lastLocate, slept, result, exceptWait>>

\* top of the loop, deadline exceeded: return Err(CmdError::WaitTimeout)
TimedOut ==
    /\ pc = "check"
    /\ Exceeded(Elapsed, timeout)
    /\ checkElapsed' = Elapsed
    /\ result' = Err("WaitTimeout")
    /\ pc' = "done"
    /\ UNCHANGED <<wait, lastAtMost, lastCheckEvery, target, script, timeout, interval,
                   start, now, attempts, nNone, latNone, lastLocate, slept,
                   exceptWait>>

\* top of the loop, deadline not exceeded: self.locate() sends the request
LocateStart ==
    /\ pc = "check"
    /\ ~Exceeded(Elapsed, timeout)
    /\ Elapsed <= Horizon
    /\ checkElapsed' = Elapsed
    /\ attempts' = attempts + 1
    /\ pc' = "locate"
    /\ UNCHANGED <<wait, lastAtMost, lastCheckEvery, target, script, timeout, interval,
                   start, now, nNone, latNone, lastLocate, slept, result,
                   exceptWait>>

\* as LocateReturn, the lookup cut short with the timeout error when the
\* response arrives after the deadline
LocateReturnPreempted ==
    /\ pc = "locate"
    /\ \E lat \in Latencies :
        LET r == locate(target, Response(attempts)) IN
        /\ now' = now + lat
        /\ lastLocate' = r
        /\ IF Exceeded(now + lat - start, timeout)
           THEN /\ result' = Err("WaitTimeout")
                /\ pc' = "done"
                /\ UNCHANGED <<nNone, latNone>>
           ELSE IF r.tag = "Some"
           THEN /\ result' = Ok(r.elems)
                /\ pc' = "done"
                /\ UNCHANGED <<nNone, latNone>>
           ELSE IF r.tag = "Err"
           THEN /\ result' = Err(r.err)
                /\ pc' = "done"
                /\ UNCHANGED <<nNone, latNone>>
           ELSE /\ pc' = "tick"
                /\ nNone' = nNone + 1
                /\ latNone' = latNone + lat
                /\ UNCHANGED result
    /\ UNCHANGED <<wait, lastAtMost, lastCheckEvery, target, script, timeout, interval,
                   start, attempts, checkElapsed, slept, exceptWait>>

\* find_element.await? : the response arrives after some latency
LocateReturn ==
    /\ pc = "locate"
    /\ \E lat \in Latencies :
        LET r == locate(target, Response(attempts)) IN
        /\ now' = now + lat
        /\ lastLocate' = r
        /\ IF r.tag = "Some"
           THEN /\ result' = Ok(r.elems)
                /\ pc' = "done"
                /\ UNCHANGED <<nNone, latNone>>
           ELSE IF r.tag = "Err"
           THEN /\ result' = Err(r.err)
                /\ pc' = "done"
                /\ UNCHANGED <<nNone, latNone>>
           ELSE /\ pc' = "tick"
                /\ nNone' = nNone + 1
                /\ latNone' = latNone + lat
                /\ UNCHANGED result
    /\ UNCHANGED <<wait, lastAtMost, lastCheckEvery, target, script, timeout, interval,
                   start, attempts, checkElapsed, slept, exceptWait>>

\* interval.tick().await
Tick ==
    /\ pc = "tick"
    /\ now' = TickEnd(interval, now)
    /\ slept' = TickEnd(interval, now) - now
    /\ interval' = NextDeadline(interval)
    /\ pc' = "check"
    /\ UNCHANGED <<wait, lastAtMost, lastCheckEvery, target, script, timeout, start,
                   attempts, nNone, latNone, checkElapsed, lastLocate, result,
                   exceptWait>>

Next ==
    \/ AtMost
    \/ CheckEvery
    \/ ForElement
    \/ ForElements
    \/ TimedOut
    \/ LocateStart
    \/ LocateReturn
    \/ Tick

Spec == Init /\ [][Next]_vars

(***************************************************************************)
(* The locator conversions on their own                                    *)
(***************************************************************************)
InitFind ==
    /\ WaitIdle
    /\ by = By("Id", "")
    /\ params = NoParams
    /\ body = {}
    /\ fpc = "caller"
    /\ ctor = NoCall
    /\ CmdIdle
    /\ DecodeIdle
    /\ ClientAlive
    /\ OthersIdle

\* the caller writes a variant of the enum: By::V(q), By::CustomKind(k, q)
Literal ==
    /\ fpc = "caller"
    /\ by' \in ByValues
    /\ fpc' = "new"
    /\ UNCHANGED <<params, body, ctor, exceptFind>>

\* the caller calls a constructor: By::c(q)
ByConstructor ==
    /\ fpc = "caller"
    /\ \E c \in Constructors, q \in Queries :
        /\ by' = Construct(c, q)
        /\ ctor' = Call(c, "", q)
    /\ fpc' = "new"
    /\ UNCHANGED <<params, body, exceptFind>>

\* the caller calls By::custom_kind(using, value)
ByCustomKind ==
    /\ fpc = "caller"
    /\ \E k \in Kinds, q \in Queries :
        /\ by' = custom_kind(k, q)
        /\ ctor' = Call("custom_kind", k, q)
    /\ fpc' = "new"
    /\ UNCHANGED <<params, body, exceptFind>>

\* let p: LocatorParameters = by.into()
Into ==
    /\ fpc = "new"
    /\ params' = FromBy(by)
    /\ fpc' = "params"
    /\ UNCHANGED <<by, body, ctor, exceptFind>>

\* serde_json::to_string(&by)
Serialize ==
    /\ fpc \in {"new", "params"}
    /\ body' = SerializeBy(by)
    /\ fpc' = "body"
    /\ UNCHANGED <<by, params, ctor, exceptFind>>

NextFind ==
    \/ Literal
    \/ ByConstructor
    \/ ByCustomKind
    \/ Into
    \/ Serialize

SpecFind == InitFind /\ [][NextFind]_vars

(***************************************************************************)
(* The routing of a command: issue_cmd asks the command for its endpoint,  *)
(* then for its method and body                                            *)
(***************************************************************************)
InitCmd ==
    /\ WaitIdle
    /\ FindIdle
    /\ base_url \in BaseUrls
    /\ session_id \in SessionIds
    /\ cmd = NoCommand
    /\ url = NotRouted
    /\ request = NoRequest
    /\ cpc = "ready"
    /\ DecodeIdle
    /\ ClientAlive
    /\ OthersIdle

\* Client::find_by(search)
ClientFindBy ==
    /\ cpc = "ready"
    /\ \E search \in ByValues : cmd' = FindElement(search)
    /\ cpc' = "issued"
    /\ UNCHANGED <<base_url, session_id, url, request, exceptCmd>>

\* Client::find_all_by(search)
ClientFindAllBy ==
    /\ cpc = "ready"
    /\ \E search \in ByValues : cmd' = FindElements(search)
    /\ cpc' = "issued"
    /\ UNCHANGED <<base_url, session_id, url, request, exceptCmd>>

\* Element::find_by(search): element_ref = self.element_id()
ElementFindBy ==
    /\ cpc = "ready"
    /\ \E search \in ByValues, element_ref \in Contexts :
        cmd' = FindElementWithContext(search, element_ref)
    /\ cpc' = "issued"
    /\ UNCHANGED <<base_url, session_id, url, request, exceptCmd>>

\* Element::find_all_by(search)
ElementFindAllBy ==
    /\ cpc = "ready"
    /\ \E search \in ByValues, element_ref \in Contexts :
        cmd' = FindElementsWithContext(search, element_ref)
    /\ cpc' = "issued"
    /\ UNCHANGED <<base_url, session_id, url, request, exceptCmd>>

\* issue_cmd(AppiumCommand::Custom(method, command, value))
IssueCustom ==
    /\ cpc = "ready"
    /\ \E method \in Methods, command \in CustomPaths, value \in CustomValues :
        cmd' = Custom(method, command, value)
    /\ cpc' = "issued"
    /\ UNCHANGED <<base_url, session_id, url, request, exceptCmd>>

\* cmd.endpoint(&base_url, session_id): a URL, a ParseError, or a panic
Endpoint ==
    /\ cpc = "issued"
    /\ url' = endpoint(cmd, base_url, session_id)
    /\ cpc' = CASE url'.tag = "Ok" -> "routed"
                [] url'.tag = "Err" -> "failed"
                [] url'.tag = "Panic" -> "panicked"
    /\ UNCHANGED <<base_url, session_id, cmd, request, exceptCmd>>

\* cmd.method_and_body(&url)
MethodAndBody ==
    /\ cpc = "routed"
    /\ request' = method_and_body(cmd)
    /\ cpc' = "sent"
    /\ UNCHANGED <<base_url, session_id, cmd, url, exceptCmd>>

NextCmd ==
    \/ ClientFindBy
    \/ ClientFindAllBy
    \/ ElementFindBy
    \/ ElementFindAllBy
    \/ IssueCustom
    \/ Endpoint
    \/ MethodAndBody

SpecCmd == InitCmd /\ [][NextCmd]_vars

(***************************************************************************)
(* The decoding of the reply to a find command                             *)
(***************************************************************************)
\* a reply array has 0 .. MaxEntries entries
MaxEntries == 3

Entries == {ObjA, ObjB, {}, ObjW3C, ObjStatus, ObjARect}

RECURSIVE Arrays(_)
\* the sequences of n entries
Arrays(n) ==
    IF n = 0 THEN {<<>>}
    ELSE {Append(a, e) : a \in Arrays(n - 1), e \in Entries}

Replies ==
    {RespErr("NoSuchElement"), RespErr("Lost")}
    \cup {RespOk(JsonObj(o)) : o \in Entries}
    \cup {RespOk(JsonArr(a)) : a \in UNION {Arrays(n) : n \in 0..MaxEntries}}

InitDecode ==
    /\ WaitIdle
    /\ FindIdle
    /\ CmdIdle
    /\ reply \in Replies
    /\ decoded = Pending
    /\ dpc = "replied"
    /\ ClientAlive
    /\ OthersIdle

\* find_by, lines 244-251: the reply decoded as one element
FindByDecode ==
    /\ dpc = "replied"
    /\ decoded' = find_by(reply)
    /\ dpc' = "one"
    /\ UNCHANGED <<reply, exceptDecode>>

\* find_all_by, lines 256-266: the reply decoded as a list of elements
FindAllByDecode ==
    /\ dpc = "replied"
    /\ decoded' = find_all_by(reply)
    /\ dpc' = "all"
    /\ UNCHANGED <<reply, exceptDecode>>

NextDecode ==
    \/ FindByDecode
    \/ FindAllByDecode

SpecDecode == InitDecode /\ [][NextDecode]_vars

(***************************************************************************)
(* lib.rs: the life of a Client, from connect() to the task spawned by     *)
(* drop()                                                                  *)
(***************************************************************************)
\* ClientBuilder::connect succeeded: the transport holds the session id that
\* the server issued
InitDrop ==
    /\ WaitIdle
    /\ FindIdle
    /\ DecodeIdle
    /\ ClientAlive
    /\ OthersIdle
    /\ base_url \in BaseUrls
    /\ session_id \in {SomeId("abc"), SomeId("s-1")}
    /\ cmd = NoCommand
    /\ url = NotRouted
    /\ request = NoRequest
    /\ cpc = "ready"

Sent(method, to) == [method |-> method, url |-> to]

\* the transport sends the request that the command described; the server
\* answers it, or the request fails
Transmit ==
    /\ cpc = "sent"
    /\ wire' = Append(wire, Sent(request.method, url.url))
    /\ \E ok \in BOOLEAN : cpc' = IF ok THEN "answered" ELSE "failed"
    /\ UNCHANGED <<base_url, session_id, cmd, url, request, handle, task, teardown, log,
                   exceptDrop>>

\* as EndSession, the task going on to the shutdown without ending the session
EndSessionSkipped ==
    /\ task = "spawned"
    /\ task' = "ending"
    /\ cpc' = "failed"
    /\ UNCHANGED <<base_url, session_id, cmd, url, request, handle, wire, teardown, log,
                   exceptDrop>>

\* drop(), lines 332-349: tokio::spawn takes the task, or panics when the
\* Client is dropped outside of a runtime
Drop ==
    /\ handle = "alive"
    /\ cpc \in {"ready", "answered", "failed"}
    /\ handle' = "dropped"
    /\ cpc' = "dropped"
    /\ \E inRuntime \in BOOLEAN :
        task' = IF inRuntime THEN "spawned" ELSE "panicked"
    /\ UNCHANGED <<base_url, session_id, cmd, url, request, wire, teardown, log,
                   exceptDrop>>

\* the task, lines 337-341: client.issue_cmd(Custom(DELETE, "", None))
EndSession ==
    /\ task = "spawned"
    /\ cmd' = Custom("DELETE", "", NoValue)
    /\ url' = NotRouted
    /\ request' = NoRequest
    /\ cpc' = "issued"
    /\ task' = "ending"
    /\ UNCHANGED <<base_url, session_id, handle, wire, teardown, log, exceptDrop>>

\* as EndSessionReturn, an error of issue_cmd ending the task
EndSessionReturnOrAbort ==
    /\ task = "ending"
    /\ cpc \in {"answered", "failed"}
    /\ teardown' = [teardown EXCEPT !.ended = IF cpc = "failed" THEN "err" ELSE "ok"]
    /\ log' = IF cpc = "failed" THEN Append(log, "Error while ending session") ELSE log
    /\ task' = IF cpc = "failed" THEN "closed" ELSE "closing"
    /\ UNCHANGED <<base_url, session_id, cmd, url, request, cpc, handle, wire, exceptDrop>>

\* the task, lines 337-343: issue_cmd returned; its error is logged
EndSessionReturn ==
    /\ task = "ending"
    /\ cpc \in {"answered", "failed"}
    /\ teardown' = [teardown EXCEPT !.ended = IF cpc = "failed" THEN "err" ELSE "ok"]
    /\ log' = IF cpc = "failed" THEN Append(log, "Error while ending session") ELSE log
    /\ task' = "closing"
    /\ UNCHANGED <<base_url, session_id, cmd, url, request, cpc, handle, wire, exceptDrop>>

\* the task, lines 345-348: client.close() succeeds or fails; its error is
\* logged and the task ends
Close ==
    /\ task = "closing"
    /\ \E ok \in BOOLEAN :
        /\ teardown' = [teardown EXCEPT !.closed = IF ok THEN "ok" ELSE "err"]
        /\ log' = IF ok THEN log ELSE Append(log, "Error while issuing shutdown")
    /\ task' = "closed"
    /\ cpc' = "shutdown"
    /\ UNCHANGED <<base_url, session_id, cmd, url, request, handle, wire, exceptDrop>>

NextDrop ==
    \/ ClientFindBy
    \/ ClientFindAllBy
    \/ ElementFindBy
    \/ ElementFindAllBy
    \/ IssueCustom
    \/ Endpoint
    \/ MethodAndBody
    \/ Transmit
    \/ Drop
    \/ EndSession
    \/ EndSessionReturn
    \/ Close

SpecDrop == InitDrop /\ [][NextDrop]_vars

\* the runtime schedules the spawned task and the transport
FairSpecDrop ==
    /\ SpecDrop
    /\ WF_vars(EndSession)
    /\ WF_vars(Endpoint)
    /\ WF_vars(MethodAndBody)
    /\ WF_vars(Transmit)
    /\ WF_vars(EndSessionReturn)
    /\ WF_vars(Close)

(***************************************************************************)
(* Two waits of one caller on the same client, polled concurrently         *)
(* (join!, select!, two tasks): each owns its Wait, its Interval and its   *)
(* start Instant; the client reference and the clock are shared.  A lookup *)
(* returns when its latency has passed, a tick at its deadline.            *)
(***************************************************************************)
\* a script of a concurrent wait has 1 .. MaxPairScript responses
MaxPairScript == 2

PairTimeouts == {DefaultCheckDelay}
PairPeriods == {DefaultCheckDelay \div 2, DefaultCheckDelay}
PairLatencies == {0, DefaultCheckDelay}
PairResponses == {RespOk(JsonObj(ObjA)), RespErr("NoSuchElement"), RespErr("Lost")}
PairScripts ==
    {[i \in 1..n |-> IF i < n THEN RespErr("NoSuchElement") ELSE r] :
        n \in 1..MaxPairScript, r \in PairResponses}

\* the response of the server to the k-th lookup of a wait
PairResponse(w, k) == w.script[IF k < Len(w.script) THEN k ELSE Len(w.script)]

InitPair ==
    /\ WaitIdle
    /\ FindIdle
    /\ CmdIdle
    /\ DecodeIdle
    /\ ClientAlive
    /\ PairIdle
    /\ DeviceIdle

\* as TickOf, the Interval being one value that the waits share
TickShared(ws, i) ==
    [j \in WaitIds |->
        IF j = i
        THEN [ws[j] EXCEPT !.interval = NextDeadline(@), !.pc = "check"]
        ELSE [ws[j] EXCEPT !.interval = NextDeadline(@)]]

\* interval.tick().await of the wait i has completed
TickOf(ws, i) ==
    [ws EXCEPT ![i].interval = NextDeadline(@), ![i].pc = "check"]

\* client.appium_wait().at_most(t).check_every(p).for_element(..) of the wait
\* i, up to the top of its loop
PairBegin(i) ==
    /\ waits[i].pc = "builder"
    /\ \E t \in PairTimeouts, p \in PairPeriods, s \in PairScripts :
        LET w == check_every(at_most(appium_wait("client"), t), p) IN
        waits' = [waits EXCEPT ![i] =
                    [@ EXCEPT !.pc = "check", !.wait = w, !.target = "single",
                              !.script = s, !.timeout = LoopTimeout(w),
                              !.interval = NewInterval(w.check_delay, clock),
                              !.start = clock]]
    /\ UNCHANGED <<clock, exceptPair>>

\* top of the loop of the wait i, deadline exceeded
PairTimedOut(i) ==
    /\ waits[i].pc = "check"
    /\ Exceeded(clock - waits[i].start, waits[i].timeout)
    /\ waits' = [waits EXCEPT ![i].pc = "done", ![i].result = Err("WaitTimeout")]
    /\ UNCHANGED <<clock, exceptPair>>

\* top of the loop of the wait i, deadline not exceeded: the lookup is sent
PairLocateStart(i) ==
    /\ waits[i].pc = "check"
    /\ ~Exceeded(clock - waits[i].start, waits[i].timeout)
    /\ \E lat \in PairLatencies :
        waits' = [waits EXCEPT ![i].pc = "locate",
                               ![i].attempts = @ + 1,
                               ![i].lats = Append(@, lat),
                               ![i].wake = clock + lat]
    /\ UNCHANGED <<clock, exceptPair>>

\* the lookup of the wait i returns
PairLocateReturn(i) ==
    /\ waits[i].pc = "locate"
    /\ waits[i].wake = clock
    /\ LET r == locate(waits[i].target, PairResponse(waits[i], waits[i].attempts)) IN
       waits' = [waits EXCEPT ![i] =
                    IF r.tag = "Some" THEN [@ EXCEPT !.pc = "done", !.result = Ok(r.elems)]
                    ELSE IF r.tag = "Err" THEN [@ EXCEPT !.pc = "done", !.result = Err(r.err)]
                    ELSE [@ EXCEPT !.pc = "tick"]]
    /\ UNCHANGED <<clock, exceptPair>>

\* interval.tick().await of the wait i completes
PairTick(i) ==
    /\ waits[i].pc = "tick"
    /\ TickEnd(waits[i].interval, clock) = clock
    /\ waits' = TickOf(waits, i)
    /\ UNCHANGED <<clock, exceptPair>>

\* the instants at which a suspended wait goes on
Wakes ==
    {waits[i].wake : i \in {j \in WaitIds : waits[j].pc = "locate"}}
    \cup {waits[i].interval.deadline : i \in {j \in WaitIds : waits[j].pc = "tick"}}

\* every wait is suspended or finished: time passes up to the next wake
Advance ==
    /\ \A i \in WaitIds : waits[i].pc # "check"
    /\ Wakes # {}
    /\ \A t \in Wakes : t > clock
    /\ clock' = CHOOSE t \in Wakes : \A u \in Wakes : t <= u
    /\ UNCHANGED <<waits, exceptPair>>

NextPair ==
    \/ \E i \in WaitIds : PairBegin(i)
    \/ \E i \in WaitIds : PairTimedOut(i)
    \/ \E i \in WaitIds : PairLocateStart(i)
    \/ \E i \in WaitIds : PairLocateReturn(i)
    \/ \E i \in WaitIds : PairTick(i)
    \/ Advance

SpecPair == InitPair /\ [][NextPair]_vars

(***************************************************************************)
(* One wait against a server whose answer depends on the time: the element *)
(* appears some time after the wait began.  The lookups are quick; the     *)
(* timer wakes the task at the deadline of a tick or a moment after it.    *)
(***************************************************************************)
ScenarioTimeout == 4 * DefaultCheckDelay
ScenarioAppears == 3 * DefaultCheckDelay + 50
ScenarioLatencies == {0, 25}
\* how long after its deadline a sleeping tick completes: not at all, or a moment
TickLateness == {0, 1}

InitScenario ==
    /\ WaitIdle
    /\ FindIdle
    /\ CmdIdle
    /\ DecodeIdle
    /\ ClientAlive
    /\ OthersIdle

\* what the server answers to a lookup sent at the elapsed time s and answered
\* at the elapsed time e
ScenarioResponses(s, e) ==
    {RespErr("NoSuchElement") : x \in {1} \cap (IF s < ScenarioAppears THEN {1} ELSE {})}
    \cup {RespOk(JsonObj(ObjA)) : x \in {1} \cap (IF e >= ScenarioAppears THEN {1} ELSE {})}

\* client.appium_wait().at_most(1 s).check_every(250 ms).for_element(search)
ScenarioForElement ==
    /\ pc = "builder"
    /\ wait = appium_wait("client")
    /\ wait' = check_every(at_most(wait, ScenarioTimeout), DefaultCheckDelay)
    /\ lastAtMost' = Given(ScenarioTimeout)
    /\ lastCheckEvery' = Given(DefaultCheckDelay)
    /\ target' = "single"
    /\ pc' = "check"
    /\ interval' = NewInterval(DefaultCheckDelay, now)
    /\ timeout' = LoopTimeout(wait')
    /\ start' = now
    /\ \E d \in StartDelays : now' = now + d
    /\ UNCHANGED <<script, attempts, nNone, latNone, checkElapsed, lastLocate, slept,
                   result, exceptWait>>

\* find_element.await? : the server answers by the time
ScenarioLocateReturn ==
    /\ pc = "locate"
    /\ \E lat \in ScenarioLatencies :
        \E resp \in ScenarioResponses(checkElapsed, Elapsed + lat) :
            LET r == locate(target, resp) IN
            /\ now' = now + lat
            /\ lastLocate' = r
            /\ IF r.tag = "Some"
               THEN /\ result' = Ok(r.elems)
                    /\ pc' = "done"
                    /\ UNCHANGED <<nNone, latNone>>
               ELSE IF r.tag = "Err"
               THEN /\ result' = Err(r.err)
                    /\ pc' = "done"
                    /\ UNCHANGED <<nNone, latNone>>
               ELSE /\ pc' = "tick"
                    /\ nNone' = nNone + 1
                    /\ latNone' = latNone + lat
                    /\ UNCHANGED result
    /\ UNCHANGED <<wait, lastAtMost, lastCheckEvery, target, script, timeout, interval,
                   start, attempts, checkElapsed, slept, exceptWait>>

\* interval.tick().await : at once when the deadline has passed, else at the
\* deadline or a moment after it
ScenarioTick ==
    /\ pc = "tick"
    /\ \E late \in TickLateness :
        LET end == IF interval.deadline > now THEN interval.deadline + late ELSE now IN
        /\ now' = end
        /\ slept' = end - now
    /\ interval' = NextDeadline(interval)
    /\ pc' = "check"
    /\ UNCHANGED <<wait, lastAtMost, lastCheckEvery, target, script, timeout, start,
                   attempts, nNone, latNone, checkElapsed, lastLocate, result,
                   exceptWait>>

NextScenario ==
    \/ ScenarioForElement
    \/ TimedOut
    \/ LocateStart
    \/ ScenarioLocateReturn
    \/ ScenarioTick

SpecScenario == InitScenario /\ [][NextScenario]_vars

(***************************************************************************)
(* commands/rotation.rs: DeviceRotation and the rotation commands          *)
(***************************************************************************)
FullTurn == 360
MaxU16 == 2 ^ 16 - 1
\* the u16 arguments a caller passes to DeviceRotation::new
AxisValues == {0, FullTurn - 1, FullTurn, MaxU16}
\* the numbers a server reports for an axis
ReplyAxisValues == {0 - 1, 0, FullTurn - 1, FullTurn, MaxU16, MaxU16 + 1}
Axes == {"x", "y", "z"}

\* DeviceRotation::new: the first axis, in the order x, y, z, that is not below
\* 360 is reported
new(x, y, z) ==
    LET bad == SelectSeq(<<<<"x", x>>, <<"y", y>>, <<"z", z>>>>,
                         LAMBDA nv : nv[2] >= FullTurn) IN
    IF bad # <<>>
    THEN RotErr("InvalidArgument", Head(bad)[1])
    ELSE RotOk(DeviceRotation(x, y, z))

\* #[derive(Deserialize)] on DeviceRotation: an object with the members x, y
\* and z, each a u16
DeserializeRotation(o) ==
    IF Axes \subseteq DOMAIN o /\ \A k \in Axes : o[k] \in 0..MaxU16
    THEN RotOk(DeviceRotation(o["x"], o["y"], o["z"]))
    ELSE RotErr("Json", "")

\* what the server replies to GET rotation: an error, or an object
RotationReplies ==
    {[err |-> "Lost", value |-> [k \in {} |-> 0]]}
    \cup {[err |-> "", value |-> o] : o \in [Axes -> ReplyAxisValues]}
    \cup {[err |-> "", value |-> [k \in {"x", "y"} |-> 0]]}

\* rotation(), lines 73-77
rotation(resp) ==
    IF resp.err # "" THEN RotErr(resp.err, "") ELSE DeserializeRotation(resp.value)

InitRotation ==
    /\ WaitIdle
    /\ FindIdle
    /\ CmdIdle
    /\ DecodeIdle
    /\ ClientAlive
    /\ OthersIdle

\* the caller builds a rotation
NewRotation ==
    /\ rpc = "caller"
    /\ \E x \in AxisValues, y \in AxisValues, z \in AxisValues :
        /\ rotIn' = <<x, y, z>>
        /\ rotOut' = new(x, y, z)
    /\ rpc' = "new"
    /\ UNCHANGED <<rotSent, exceptRot>>

\* the caller asks the device for its rotation
GetRotation ==
    /\ rpc = "caller"
    /\ \E resp \in RotationReplies :
        /\ rotIn' = resp
        /\ rotOut' = rotation(resp)
    /\ rpc' = "got"
    /\ UNCHANGED <<rotSent, exceptRot>>

\* set_rotation(rotation), lines 79-90, with a rotation the caller holds: the
\* axes are posted as they are
SetRotation ==
    /\ rpc \in {"new", "got"}
    /\ rotOut.tag = "Ok"
    /\ rotSent' = rotOut.rot
    /\ \E ok \in BOOLEAN :
        rotOut' = IF ok THEN RotOk(rotOut.rot) ELSE RotErr("Lost", "")
    /\ rpc' = "set"
    /\ UNCHANGED <<rotIn, exceptRot>>

NextRotation ==
    \/ NewRotation
    \/ GetRotation
    \/ SetRotation

SpecRotation == InitRotation /\ [][NextRotation]_vars

(***************************************************************************)
(* commands/recording.rs: IOSCanRecordScreen::start_recording              *)
(***************************************************************************)
MaxU8 == 2 ^ 8 - 1
MinFps == 1
MaxFps == 60
FpsValues == {Absent} \cup {Arg(f) : f \in {0, MinFps, 10, MaxFps, MaxFps + 1, MaxU8}}
UploadOptionsValues ==
    {empty,
     UploadOptions(Arg("ftp://host/video.mp4"), Arg(<<"user", "pass">>), Arg("PUT"),
                   Absent)}
RecordingArgsValues ==
    {RecordingArgs(c, q, f, sc, Absent, fr, tl, o) :
        c \in {Absent, Arg("h264")}, q \in {Absent, Arg("Low"), Arg("Photo")},
        f \in FpsValues, sc \in {Absent, Arg("320:240")},
        fr \in {Absent, Arg(TRUE)}, tl \in {Absent, Arg(180)},
        o \in UploadOptionsValues}

\* a map without members, and the map of one member if the argument is given
EmptyMap == [k \in {} |-> 0]
Member(key, opt) == IF opt.some THEN key :> opt.v ELSE EmptyMap

\* ScreenRecordingUploadOptions::to_map, lines 46-68
to_map(o) ==
    Member("remotePath", o.remote_path)
    @@ (IF o.credentials.some
        THEN ("user" :> o.credentials.v[1]) @@ ("pass" :> o.credentials.v[2])
        ELSE EmptyMap)
    @@ Member("method", o.method)
    @@ Member("fileFieldName", o.file_field_name)

\* #[serde(rename_all = "lowercase")] on IOSVideoQuality
QualityName(q) ==
    CASE q = "Low" -> "low"
      [] q = "Medium" -> "medium"
      [] q = "High" -> "high"
      [] q = "Photo" -> "photo"

\* as ValidFps, a rate of zero accepted
ValidFpsFromZero(fps) == fps \in 0..MaxFps

\* (1..=60).contains(&fps)
ValidFps(fps) == fps \in MinFps..MaxFps

\* the request of start_recording_with_options, lines 78-92
StartRecordingRequest(force_restart, time_limit, options) ==
    [method |-> "POST",
     command |-> "appium/start_recording_screen",
     options |-> Member("timeLimit", time_limit)
                 @@ Member("forceRestart", force_restart)
                 @@ options]

\* IOSCanRecordScreen::start_recording up to its call of
\* start_recording_with_options, lines 196-218: the error it returns, or the
\* options it passes on
ios_options(a) ==
    IF a.fps.some /\ ~ValidFps(a.fps.v)
    THEN RecErr("InvalidArgument", "fps")
    ELSE RecOk(Member("videoFilters", a.video_filters)
               @@ Member("videoScale", a.video_scale)
               @@ Member("videoFps", a.fps)
               @@ (IF a.video_quality.some
                   THEN "videoQuality" :> QualityName(a.video_quality.v)
                   ELSE EmptyMap)
               @@ Member("videoType", a.video_codec)
               @@ to_map(a.options))

\* what the server replies to the request: the video so far, an error, or a
\* value that is no string
RecordingReplies == {RecOk(""), RecErr("Lost", ""), RecErr("Json", "")}

InitRecording ==
    /\ WaitIdle
    /\ FindIdle
    /\ CmdIdle
    /\ DecodeIdle
    /\ ClientAlive
    /\ OthersIdle

\* start_recording(..) up to the first .await
IOSStartRecording ==
    /\ recpc = "caller"
    /\ \E a \in RecordingArgsValues :
        LET r == ios_options(a) IN
        /\ recArgs' = a
        /\ IF r.tag = "Err"
           THEN /\ recOut' = r
                /\ recpc' = "returned"
                /\ UNCHANGED recWire
           ELSE /\ recWire' = Append(recWire,
                                     StartRecordingRequest(a.force_restart, a.time_limit, r.v))
                /\ recpc' = "awaiting"
                /\ UNCHANGED recOut
    /\ UNCHANGED exceptRec

\* issue_cmd(..).await? and from_value, lines 92-94
RecordingAnswered ==
    /\ recpc = "awaiting"
    /\ \E r \in RecordingReplies : recOut' = r
    /\ recpc' = "returned"
    /\ UNCHANGED <<recArgs, recWire, exceptRec>>

NextRecording ==
    \/ IOSStartRecording
    \/ RecordingAnswered

SpecRecording == InitRecording /\ [][NextRecording]_vars

(***************************************************************************)
(* commands/battery.rs: BatteryInfo and CanBeCharged                       *)
(***************************************************************************)
\* JSON numbers and strings, as members of the battery info
Num(n) == [t |-> "num", n |-> n, s |-> ""]
Text(t) == [t |-> "str", n |-> 0, s |-> t]

Platforms == {"android", "ios"}
\* the state codes a server reports; the numbers of the model are all below
\* 2^32, so a number is a u32 when it is not negative
StateCodes == {Num(n) : n \in (0 - 1)..6} \cup {Text("2"), Text("charging")}
Levels == {Num(0), Num(1)}
\* the maps a server reports, as sets of members: with or without a state,
\* with or without a level
BatteryMaps ==
    {{}}
    \cup {{<<"state", c>>} : c \in StateCodes}
    \cup {{<<"level", l>>} : l \in Levels}
    \cup {{<<"state", c>>, <<"level", l>>} : c \in StateCodes, l \in Levels}
BatteryReplies == {InfoOk(m) : m \in BatteryMaps} \cup {InfoErr("Lost"), InfoErr("Json")}

\* self.get("state").cloned().and_then(|v| from_value::<u32>(v).ok())
StateCode(m) ==
    IF \E p \in m : p[1] = "state" /\ p[2].t = "num" /\ p[2].n >= 0
    THEN Arg((CHOOSE p \in m : p[1] = "state")[2].n)
    ELSE Absent

\* BatteryInfo<AndroidCapabilities>::state, lines 77-89
AndroidState(m) ==
    LET code == StateCode(m) IN
    IF ~code.some THEN "Unknown"
    ELSE CASE code.v = 2 -> "Charging"
           [] code.v = 3 -> "Discharging"
           [] code.v = 4 -> "NotCharging"
           [] code.v = 5 -> "Full"
           [] OTHER -> "Unknown"

\* CanBeCharged for BatteryInfo<AndroidCapabilities>, lines 92-109
AndroidProbes(m) ==
    LET state == AndroidState(m) IN
    Probes(state,
           state = "Full",
           state = "Charging",
           state = "NotCharging" \/ state = "Discharging",
           state = "Unknown")

\* BatteryInfo<IOSCapabilities>::state, lines 120-131
IOSState(m) ==
    LET code == StateCode(m) IN
    IF ~code.some THEN "Unknown"
    ELSE CASE code.v = 1 -> "Unplugged"
           [] code.v = 2 -> "Charging"
           [] code.v = 3 -> "Full"
           [] OTHER -> "Unknown"

\* CanBeCharged for BatteryInfo<IOSCapabilities>, lines 134-150
IOSProbes(m) ==
    LET state == IOSState(m) IN
    Probes(state,
           state = "Full",
           state = "Charging",
           state # "Unplugged",
           state = "Unknown")

InitBattery ==
    /\ WaitIdle
    /\ FindIdle
    /\ CmdIdle
    /\ DecodeIdle
    /\ ClientAlive
    /\ OthersIdle

\* battery_info() on an Android or an iOS client, lines 18-24
BatteryInfo ==
    /\ bpc = "caller"
    /\ \E p \in Platforms : platform' = p
    /\ \E r \in BatteryReplies : info' = r
    /\ bpc' = "returned"
    /\ UNCHANGED <<probes, exceptBat>>

\* the caller asks the value for its state
Probe ==
    /\ bpc = "returned"
    /\ info.tag = "Ok"
    /\ probes' = IF platform = "android" THEN AndroidProbes(info.inner)
                 ELSE IOSProbes(info.inner)
    /\ bpc' = "probed"
    /\ UNCHANGED <<platform, info, exceptBat>>

NextBattery ==
    \/ BatteryInfo
    \/ Probe

SpecBattery == InitBattery /\ [][NextBattery]_vars

(***************************************************************************)
(* The runtime drives the task and every request is answered               *)
(***************************************************************************)
FairSpec ==
    /\ Spec
    /\ WF_vars(TimedOut)
    /\ WF_vars(LocateStart)
    /\ WF_vars(LocateReturn)
    /\ WF_vars(Tick)

(***************************************************************************)
(* Properties of the wait                                                  *)
(***************************************************************************)
NoSuch == RespErr("NoSuchElement")
FoundA == RespOk(JsonObj(ObjA))

\* the server reports no-such-element n times and then the element "a"
NotFoundThenFound(n) ==
    /\ Len(script) = n + 1
    /\ \A i \in 1..n : script[i] = NoSuch
    /\ script[n + 1] = FoundA

\* the server reports no-such-element to every lookup
AlwaysNotFound == \A i \in 1..Len(script) : script[i] = NoSuch

\* the error a lookup fails with on this response, other than no-such-element
\* ("" when there is none): a transport error, an object without the marker
\* for a single element, anything but an array for a list
FatalOf(tgt, resp) ==
    IF resp.err # "" THEN (IF resp.err = "NoSuchElement" THEN "" ELSE resp.err)
    ELSE IF tgt = "single" /\ resp.value = JsonObj(ObjW3C) THEN "NotW3C"
    ELSE IF tgt = "multiple" /\ resp.value.t = "obj" THEN "Json"
    ELSE ""

\* the k-th lookup has returned
Returned(k) == k < attempts \/ (k = attempts /\ pc # "locate")

\* the wait finished by returning a value
Done == pc = "done"

\* C1 as stated: for a lookup that reports no-such-element exactly N times and
\* then succeeds, with a poll interval P and a timeout T > N*P, for_element
\* returns success after exactly N+1 lookups.
C1_AsStated ==
    \A n \in 0..(MaxScript - 1) :
        (/\ Done
         /\ target = "single"
         /\ NotFoundThenFound(n)
         /\ wait.check_delay > 0
         /\ wait.timeout > n * wait.check_delay)
        => (result = Ok(<<"a">>) /\ attempts = n + 1)

\* C1 (amended): for a lookup that reports no-such-element exactly N times and
\* then succeeds, with a positive poll interval P and a timeout
\* T > N*P + L, L the total time the not-found lookups took, for_element
\* returns success after exactly N+1 lookups; no wait of such a lookup
\* makes more than N+1 lookups.
C1_SucceedsAfterNPlusOne ==
    \A n \in 0..(MaxScript - 1) :
        (target = "single" /\ NotFoundThenFound(n) /\ pc # "builder")
        => /\ attempts <= n + 1
           /\ (/\ Done
               /\ wait.check_delay > 0
               /\ wait.timeout > n * wait.check_delay + latNone)
              => (result = Ok(<<"a">>) /\ attempts = n + 1)

\* C1 witness: two slow not-found lookups, then success within the timeout
C1_Witness ==
    /\ Done
    /\ target = "single"
    /\ NotFoundThenFound(2)
    /\ latNone > 0
    /\ wait.timeout > 2 * wait.check_delay + latNone
    /\ result = Ok(<<"a">>)
    /\ attempts = 3

\* C2: once a lookup of a wait has returned an error other than
\* no-such-element, the wait has returned exactly that error and that lookup
\* was its last; when it is the first lookup, exactly 1 lookup was made,
\* whatever the timeout and the poll interval.
C2_FailFast ==
    \A k \in 1..attempts :
        (Returned(k) /\ FatalOf(target, Response(k)) # "")
        => /\ Done
           /\ result = Err(FatalOf(target, Response(k)))
           /\ attempts = k

\* C2 witness: the second lookup of a list wait failed with a transport error
C2_Witness ==
    /\ target = "multiple"
    /\ attempts = 2
    /\ Returned(2)
    /\ Response(1) = NoSuch
    /\ Response(2) = RespErr("Lost")
    /\ result = Err("Lost")

\* C3: a wait with a positive poll interval and a timeout up to the horizon,
\* whose lookups always report no-such-element, eventually returns the timeout
\* error.
C3_EventuallyTimesOut ==
    (pc = "check" /\ attempts = 0 /\ AlwaysNotFound /\ wait.timeout <= Horizon)
    ~> (Done /\ result = Err("WaitTimeout"))

\* C3 witness: a wait of always-not-found lookups timed out after polling
C3_Witness ==
    /\ Done
    /\ AlwaysNotFound
    /\ wait.check_delay > 0
    /\ wait.timeout > 0
    /\ attempts >= 3
    /\ result = Err("WaitTimeout")

\* C4: the timeout error is returned only when the time elapsed since the wait
\* began is at least the configured timeout.
C4_TimeoutNotEarly ==
    result.err = "WaitTimeout"
    => (Elapsed >= wait.timeout /\ checkElapsed >= wait.timeout)

\* C4 witness: the timeout error, returned after the configured timeout
C4_Witness ==
    /\ Done
    /\ result = Err("WaitTimeout")
    /\ wait.timeout > wait.check_delay
    /\ attempts >= 2
    /\ Elapsed > wait.timeout

\* C5: no wait returns no-such-element: a finished wait returned its elements,
\* the timeout error or the other error of its last lookup; the timeout error
\* is returned only when no lookup succeeded or failed with another error, and
\* another error only when the last lookup failed with it.
C5_NotFoundNeverSurfaces ==
    /\ result.err # "NoSuchElement"
    /\ Done =>
        /\ result.tag \in {"Ok", "Err"}
        /\ result.tag = "Err" => result.err \in {"WaitTimeout", "Lost", "NotW3C", "Json"}
        /\ result.err = "WaitTimeout" =>
              \A k \in 1..attempts : Response(k) = NoSuch
        /\ (result.tag = "Err" /\ result.err # "WaitTimeout") =>
              (attempts >= 1 /\ result.err = FatalOf(target, Response(attempts)))
        /\ result.tag = "Ok" =>
              (attempts >= 1 /\ Response(attempts).err = "")

\* C5 witness: a list wait saw no-such-element and then returned the timeout error
C5_Witness ==
    /\ Done
    /\ target = "multiple"
    /\ nNone >= 1
    /\ lastLocate = NoneYet
    /\ result = Err("WaitTimeout")

\* the state of the wait's state machine
State ==
    IF pc \in {"check", "locate", "tick"} THEN "Polling"
    ELSE IF pc # "done" THEN "NotStarted"
    ELSE IF result.tag = "Ok" THEN "Succeeded"
    ELSE IF result.err = "WaitTimeout" THEN "TimedOut"
    ELSE "Failed"

Terminal == {"Succeeded", "TimedOut", "Failed"}

\* the response the lookup in flight is about to return
InFlight == Response(attempts)

\* C6: a wait starts in Polling and ends in one of Succeeded, TimedOut, Failed;
\* in a terminal state no lookup, no sleep and no other step happens; a lookup
\* that returns no-such-element keeps the wait in Polling, one that returns
\* elements ends it in Succeeded, one that returns another error in Failed, and
\* TimedOut is entered only from the deadline check with the deadline exceeded.
C6_StateMachine ==
    [][
        /\ State = "NotStarted" => State' \in {"NotStarted", "Polling"}
        /\ (State = "NotStarted" /\ State' = "Polling") =>
              (pc' = "check" /\ attempts' = 0 /\ result' = Pending)
        /\ State \in Terminal => UNCHANGED waitVars
        /\ State = "Polling" => State' \in {"Polling"} \cup Terminal
        /\ (State = "Polling" /\ pc # "locate") => State' \in {"Polling", "TimedOut"}
        /\ (State = "Polling" /\ State' = "TimedOut") =>
              (pc = "check" /\ Elapsed > wait.timeout)
        /\ (pc = "locate" /\ InFlight = NoSuch) => (State' = "Polling" /\ pc' = "tick")
        /\ (pc = "locate" /\ FatalOf(target, InFlight) # "") => State' = "Failed"
        /\ (pc = "locate" /\ InFlight # NoSuch /\ FatalOf(target, InFlight) = "") =>
              State' = "Succeeded"
    ]_vars

\* C6 witness: a wait that polled, slept and then failed
C6_Witness ==
    /\ State = "Failed"
    /\ nNone >= 1
    /\ slept > 0
    /\ attempts >= 3

\* C7: a lookup is issued only by the deadline check at the top of an
\* iteration, the first included, and only when that check read an elapsed
\* time of at most the timeout; the timeout error is returned by that check
\* alone, never by the sleep or while a lookup is in flight.
C7_DeadlineBeforeLookup ==
    [][
        /\ attempts' # attempts =>
              /\ attempts' = attempts + 1
              /\ pc = "check" /\ pc' = "locate"
              /\ checkElapsed' = Elapsed
              /\ Elapsed <= wait.timeout
        /\ (pc = "check" /\ Elapsed > wait.timeout) =>
              (attempts' = attempts /\ result' = Err("WaitTimeout"))
        /\ (result'.err = "WaitTimeout" /\ result.err # "WaitTimeout") =>
              (pc = "check" /\ checkElapsed' = Elapsed /\ checkElapsed' > wait.timeout)
        /\ pc = "tick" => (pc' = "check" /\ result' = result)
        /\ pc = "locate" => result'.err # "WaitTimeout"
    ]_vars

\* C7 witness: the first deadline check found the timeout exceeded, no lookup made
C7_Witness ==
    /\ Done
    /\ attempts = 0
    /\ checkElapsed > wait.timeout
    /\ result = Err("WaitTimeout")

\* C8: when the first lookup of for_elements returns an empty list, the wait
\* has returned that empty list and made exactly one lookup.
C8_EmptyListIsFound ==
    (/\ target = "multiple"
     /\ attempts >= 1
     /\ Returned(1)
     /\ Response(1) = RespOk(JsonArr(<<>>)))
    => (Done /\ result = Ok(<<>>) /\ attempts = 1)

\* C8 witness: for_elements returned the empty list of its first lookup
C8_Witness ==
    /\ Done
    /\ target = "multiple"
    /\ Response(1) = RespOk(JsonArr(<<>>))
    /\ lastLocate = Some(<<>>)
    /\ result = Ok(<<>>)
    /\ attempts = 1

\* C9: the Wait of appium_wait() has timeout 30 s and poll interval 250 ms;
\* the timeout is always the argument of the latest at_most call (30 s when
\* there was none), the interval the argument of the latest check_every call
\* (250 ms when there was none), the client the one the Wait was made for, and
\* the poll loop runs with these two values.
C9_BuilderFrame ==
    /\ wait.client = "client"
    /\ wait.timeout = (IF lastAtMost.given THEN lastAtMost.d ELSE 30000)
    /\ wait.check_delay = (IF lastCheckEvery.given THEN lastCheckEvery.d ELSE 250)
    /\ State # "NotStarted" =>
          /\ timeout = wait.timeout
          /\ interval.period = wait.check_delay

\* C9 witness: a poll loop running with a timeout and an interval set by the caller
C9_Witness ==
    /\ pc = "tick"
    /\ lastAtMost = Given(750)
    /\ lastCheckEvery = Given(500)
    /\ timeout = 750
    /\ interval.period = 500

(***************************************************************************)
(* Properties of the locator conversions                                   *)
(***************************************************************************)
\* the Appium tag of each strategy
AppiumTag(variant) ==
    CASE variant = "Id" -> "id"
      [] variant = "Name" -> "name"
      [] variant = "Xpath" -> "xpath"
      [] variant = "UiAutomator" -> "-android uiautomator"
      [] variant = "AndroidDataMatcher" -> "-android datamatcher"
      [] variant = "AndroidViewMatcher" -> "-android viewmatcher"
      [] variant = "AndroidViewTag" -> "-android viewtag"
      [] variant = "IosClassChain" -> "-ios class chain"
      [] variant = "IosNsPredicate" -> "-ios predicate string"
      [] variant = "AccessibilityId" -> "accessibility id"
      [] variant = "ClassName" -> "class name"
      [] variant = "Image" -> "-image"
      [] variant = "Custom" -> "-custom"

\* the wire pair the locator is expected to have
WirePair(b) ==
    IF b.variant = "CustomKind"
    THEN [using |-> b.kind, value |-> b.value]
    ELSE [using |-> AppiumTag(b.variant), value |-> b.value]

\* C10: the conversion of every locator yields its wire pair, the fixed Appium
\* tag of the variant (the given tag for CustomKind) with the payload
\* unchanged, and the locator serializes to the object of that pair.
C10_WirePair ==
    /\ fpc = "params" => params = WirePair(by)
    /\ fpc = "body" =>
          body = {<<"using", WirePair(by).using>>, <<"value", WirePair(by).value>>}

\* C10 witness: an iOS predicate locator converted, a custom-kind one serialized
C10_Witness ==
    \/ /\ fpc = "params"
       /\ by = By("IosNsPredicate", "Go")
       /\ params = [using |-> "-ios predicate string", value |-> "Go"]
    \/ /\ fpc = "body"
       /\ by = CustomKind("-my strategy", "//a[1]")
       /\ body = {<<"using", "-my strategy">>, <<"value", "//a[1]">>}

\* the variant a constructor is named after
NamedVariant(c) ==
    CASE c = "id" -> "Id"
      [] c = "name" -> "Name"
      [] c = "xpath" -> "Xpath"
      [] c = "uiautomator" -> "UiAutomator"
      [] c = "android_data_matcher" -> "AndroidDataMatcher"
      [] c = "android_view_matcher" -> "AndroidViewMatcher"
      [] c = "android_view_tag" -> "AndroidViewTag"
      [] c = "ios_class_chain" -> "IosClassChain"
      [] c = "ios_ns_predicate" -> "IosNsPredicate"
      [] c = "accessibility_id" -> "AccessibilityId"
      [] c = "class_name" -> "ClassName"
      [] c = "image" -> "Image"
      [] c = "custom" -> "Custom"

\* C11: every public constructor builds the strategy it is named after: the wire
\* pair of By::c(q) is the Appium tag of the variant named like c, with q as
\* its value; By::xpath(q) is sent with using = "xpath".
C11_ConstructorBuildsNamedStrategy ==
    ctor.name \in Constructors =>
        /\ fpc = "new" => by = By(NamedVariant(ctor.name), ctor.query)
        /\ fpc = "params" =>
              params = [using |-> AppiumTag(NamedVariant(ctor.name)),
                        value |-> ctor.query]
        /\ fpc = "body" =>
              body = {<<"using", AppiumTag(NamedVariant(ctor.name))>>,
                      <<"value", ctor.query>>}

\* C12 as stated: every locator, of every variant and payload, has a wire pair
\* with a non-empty `using` tag.
C12_AsStated ==
    /\ fpc = "params" => params.using # ""
    /\ fpc = "body" => <<"using", "">> \notin body

\* C12: the wire pair of a locator has an empty `using` tag exactly when the
\* locator is a CustomKind whose caller-supplied tag is empty; the thirteen
\* fixed variants have a non-empty tag for every payload.
C12_UsingNonEmptyUnlessGivenEmpty ==
    /\ fpc = "params" =>
          (params.using = "" <=> (by.variant = "CustomKind" /\ by.kind = ""))
    /\ fpc = "body" =>
          (<<"using", "">> \in body <=> (by.variant = "CustomKind" /\ by.kind = ""))

\* C12 witness: a fixed variant with an empty payload and a custom kind with a
\* non-empty tag, both converted
C12_Witness ==
    /\ fpc = "params"
    /\ \/ by = By("Image", "") /\ params.using = "-image"
       \/ by = CustomKind("-my strategy", "") /\ params.using = "-my strategy"

\* a session id as the server issues it: one path segment of the URL
PlainSession == session_id.some /\ session_id.id \in {"abc", "s-1"}

\* base/session/S/ followed by the given segments
UnderSession(segs) ==
    Url(base_url.host, Front(base_url.path) \o <<"session", session_id.id>> \o segs)

\* C13: for every locator and session id the endpoint of FindElement is
\* base/session/S/element and that of FindElements is base/session/S/elements,
\* whatever the locator.
C13_FindEndpoint ==
    (PlainSession /\ cpc \in {"routed", "sent"}) =>
        /\ cmd.variant = "FindElement" => url = UrlOk(UnderSession(<<"element">>))
        /\ cmd.variant = "FindElements" => url = UrlOk(UnderSession(<<"elements">>))

\* C13 witness: two different locators routed to the same element endpoint, and
\* a find-all routed to the elements endpoint
C13_Witness ==
    /\ cpc = "routed"
    /\ base_url = Url("localhost:4723", <<"wd", "hub", "">>)
    /\ session_id = SomeId("abc")
    /\ \/ /\ cmd \in {FindElement(By("Id", "Go")), FindElement(CustomKind("", "//a[1]"))}
          /\ url.url.path = <<"wd", "hub", "session", "abc", "element">>
       \/ /\ cmd = FindElements(By("Xpath", "//a[1]"))
          /\ url.url.path = <<"wd", "hub", "session", "abc", "elements">>

\* C14: the endpoint of FindElementWithContext(L, C) is
\* base/session/S/element/C/element and that of FindElementsWithContext(L, C)
\* is base/session/S/element/C/elements: a find issued on an Element handle is
\* scoped to that element and its URL differs from the session-wide find URL.
C14_ContextEndpoint ==
    (PlainSession /\ cpc \in {"routed", "sent"} /\ cmd.context \in {"e1", "e2"}) =>
        /\ cmd.variant = "FindElementWithContext" =>
              /\ url = UrlOk(UnderSession(<<"element", cmd.context, "element">>))
              /\ url # endpoint(FindElement(cmd.by), base_url, session_id)
        /\ cmd.variant = "FindElementsWithContext" =>
              /\ url = UrlOk(UnderSession(<<"element", cmd.context, "elements">>))
              /\ url # endpoint(FindElements(cmd.by), base_url, session_id)

\* a relative path without dot segments, as a custom command names its route
PlainPaths == {"", "status", "appium/device/lock"}

\* the JSON object a text of the model denotes
ObjectOf(text) ==
    IF Len(text) = 2 THEN JsonObj({})
    ELSE JsonObj({<<text[2].s, text[4].s>>})

\* C15: for Custom(method, relativePath, body) and session S the endpoint is
\* base/session/S/relativePath, the method is the given method, and the body
\* is the given JSON value serialized unchanged, or absent when none is given.
C15_CustomRoute ==
    (PlainSession /\ cmd.variant = "Custom" /\ cmd.command \in PlainPaths) =>
        /\ cpc \in {"routed", "sent"} =>
              url = UrlOk(UnderSession(ParseRef(cmd.command).segs
                                       \o (IF cmd.command = "" THEN <<"">> ELSE <<>>)))
        /\ cpc = "sent" =>
              /\ request.method = cmd.method
              /\ request.body.some = cmd.value.some
              /\ cmd.value.some =>
                    /\ Head(request.body.text) = Punct("{")
                    /\ request.body.text[Len(request.body.text)] = Punct("}")
                    /\ ObjectOf(request.body.text) = cmd.value.v

\* C15 witness: a DELETE without body, and a GET with a body, sent to a route of
\* several segments
C15_Witness ==
    /\ cpc = "sent"
    /\ session_id = SomeId("s-1")
    /\ cmd.variant = "Custom"
    /\ cmd.command = "appium/device/lock"
    /\ url.url.path \in {<<"session", "s-1", "appium", "device", "lock">>,
                         <<"wd", "hub", "session", "s-1", "appium", "device", "lock">>}
    /\ \/ request = Request("DELETE", NoText)
       \/ /\ cmd.value = SomeValue(JsonObj({<<"action", "lock">>}))
          /\ request = Request("GET", SomeText(<<Punct("{"), Str("action"), Punct(":"),
                                                  Str("lock"), Punct("}")>>))

FindVariants ==
    {"FindElement", "FindElements", "FindElementWithContext", "FindElementsWithContext"}

\* the text {"using": tag, "value": query}
LocatorText(tag, query) ==
    <<Punct("{"), Str("using"), Punct(":"), Str(tag), Punct(","),
      Str("value"), Punct(":"), Str(query), Punct("}")>>

\* C16: each of the four find commands is sent with POST and with a body that
\* is exactly {"using": tag, "value": query} for the tag and the query of its
\* locator: the same body for the four, without the context element id.
C16_FindRequest ==
    (cpc = "sent" /\ cmd.variant \in FindVariants) =>
        request = Request("POST", SomeText(LocatorText(WirePair(cmd.by).using,
                                                       WirePair(cmd.by).value)))

\* C16 witness: an accessibility-id find on session "abc", session-wide and
\* within an element
C16_Witness ==
    /\ cpc = "sent"
    /\ session_id = SomeId("abc")
    /\ base_url = Url("localhost:4723", <<"">>)
    /\ cmd \in {FindElement(accessibility_id("Go")),
                FindElementsWithContext(accessibility_id("Go"), "e1")}
    /\ cmd.variant = "FindElement" => url.url.path = <<"session", "abc", "element">>
    /\ request = Request("POST", SomeText(LocatorText("accessibility id", "Go")))

\* the entries from_value::<HashMap<String, String>> reads: objects whose
\* members are all strings
StringEntries == {ObjA, ObjB, {}, ObjW3C}

RECURSIVE Markers(_)
\* the marker values of the entries that carry one, in the order of the array
Markers(a) ==
    IF a = <<>> THEN <<>>
    ELSE (IF <<"ELEMENT", "a">> \in Head(a) THEN <<"a">>
          ELSE IF <<"ELEMENT", "b">> \in Head(a) THEN <<"b">>
          ELSE <<>>) \o Markers(Tail(a))

IsArrayReply == reply.err = "" /\ reply.value.t = "arr"

\* C17 as stated: find_all_by drops every entry of the reply array that lacks
\* the marker instead of failing, and returns the marker values of the other
\* entries in order, for heterogeneous entries too.
C17_AsStated ==
    (dpc = "all" /\ IsArrayReply) => decoded = Ok(Markers(reply.value.a))

\* C17: when every entry of the reply array is an object whose members are
\* all strings, find_all_by drops the entries without the marker and returns
\* the marker values of the others in order; when some entry is not such an
\* object, the whole call fails with a JSON decoding error.
C17_DropsUnmarkedStringEntries ==
    (dpc = "all" /\ IsArrayReply) =>
        IF \A i \in 1..Len(reply.value.a) : reply.value.a[i] \in StringEntries
        THEN decoded = Ok(Markers(reply.value.a))
        ELSE decoded = Err("Json")

\* C17 witness: [{"ELEMENT":"a"},{},{"ELEMENT":"b"}] decoded to a, b
C17_Witness ==
    /\ dpc = "all"
    /\ reply = RespOk(JsonArr(<<ObjA, {}, ObjB>>))
    /\ decoded = Ok(<<"a", "b">>)

\* a reply that is an object of strings without the identifier marker
Unmarked(resp) ==
    /\ resp.err = ""
    /\ resp.value.t = "obj"
    /\ resp.value.o \in StringEntries
    /\ \A p \in resp.value.o : p[1] # "ELEMENT"

\* C18: a single-element reply without the identifier marker makes find_by
\* fail with the not-protocol error, never with no-such-element; inside a
\* wait the lookup that got such a reply is the last one and the wait ends as
\* Failed with that error.
C18_UnmarkedReplyFailsWait ==
    \A k \in 1..attempts :
        (target = "single" /\ Returned(k) /\ Unmarked(Response(k)))
        => /\ lastLocate = LocErr("NotW3C")
           /\ State = "Failed"
           /\ result = Err("NotW3C")
           /\ attempts = k

\* C18 witness: the third lookup of a wait got {"element-6066-..": "c"} after
\* two not-found replies and one sleep each
C18_Witness ==
    /\ target = "single"
    /\ attempts = 3
    /\ nNone = 2
    /\ Unmarked(Response(3))
    /\ State = "Failed"
    /\ result = Err("NotW3C")

\* C19: the computation of the endpoint never aborts: for every command, server
\* URL and session id, an absent or malformed one included, it returns a URL
\* or a routing error to the caller.
C19_EndpointNeverAborts ==
    /\ cpc # "panicked"
    /\ cpc \in {"routed", "failed", "sent"} => url.tag \in {"Ok", "Err"}

\* a DELETE request for the session of the client is on the wire
DeleteSent ==
    \E i \in 1..Len(wire) :
        wire[i] = Sent("DELETE", Url(base_url.host,
                                     Front(base_url.path) \o <<"session", session_id.id, "">>))

\* C20: dropping a Client ends its session: once drop() has spawned its task,
\* and the task is scheduled, a DELETE request for the session of the client is
\* eventually sent to the server.
C20_DropEndsSession == (task = "spawned") ~> DeleteSent

\* C20 witness: the task of a dropped client has sent DELETE base/session/abc/
C20_Witness ==
    /\ handle = "dropped"
    /\ task \in {"ending", "closed"}
    /\ session_id = SomeId("abc")
    /\ base_url = Url("localhost:4723", <<"wd", "hub", "">>)
    /\ wire # <<>>
    /\ wire[Len(wire)] = Sent("DELETE", Url("localhost:4723",
                                            <<"wd", "hub", "session", "abc", "">>))

RECURSIVE AloneFrom(_, _, _, _)
\* the wait w run alone from the top of its loop, after k lookups, at the
\* instant t, with the interval iv: its lookups get the responses of its
\* script and take the times w.lats
AloneFrom(w, k, t, iv) ==
    IF Exceeded(t - w.start, w.timeout)
    THEN [result |-> Err("WaitTimeout"), attempts |-> k]
    ELSE IF k = Len(w.lats)
    THEN [result |-> Pending, attempts |-> k]
    ELSE LET r == locate(w.target, PairResponse(w, k + 1)) IN
         IF r.tag = "Some" THEN [result |-> Ok(r.elems), attempts |-> k + 1]
         ELSE IF r.tag = "Err" THEN [result |-> Err(r.err), attempts |-> k + 1]
         ELSE AloneFrom(w, k + 1, TickEnd(iv, t + w.lats[k + 1]), NextDeadline(iv))

Alone(w) == AloneFrom(w, 0, w.start, NewInterval(w.wait.check_delay, w.start))

\* C21: two waits running concurrently on the same client are independent: in
\* every interleaving of their lookups and sleeps, each wait that has returned
\* has the outcome and the number of attempts that it has when run alone
\* against the same lookup outcomes (responses and the times they take).
C21_ConcurrentWaitsIndependent ==
    \A i \in WaitIds :
        waits[i].pc = "done" =>
            /\ waits[i].result = Alone(waits[i]).result
            /\ waits[i].attempts = Alone(waits[i]).attempts

\* C21 witness: two waits begun at the same instant with different poll
\* intervals, their lookups and sleeps interleaved, one found its element at the
\* second lookup and the other timed out after three
C21_Witness ==
    /\ waits[1].pc = "done" /\ waits[2].pc = "done"
    /\ waits[1].start = waits[2].start
    /\ waits[1].wait.check_delay # waits[2].wait.check_delay
    /\ waits[1].result = Ok(<<"a">>) /\ waits[1].attempts = 2
    /\ waits[2].result = Err("WaitTimeout") /\ waits[2].attempts >= 3

\* C22: the poll interval is a fixed sleep between attempts: between the end of
\* a lookup that reported not-found and the start of the next attempt, the
\* second attempt included, the wait sleeps for the configured interval,
\* neither longer nor shorter.
C22_FixedSleepBetweenAttempts ==
    (pc = "check" /\ attempts >= 1) => slept = wait.check_delay

\* C23: the timeout is cooperative: a lookup that was started by a passing
\* deadline check runs to its end whatever the time it takes, and when it
\* succeeds the wait returns its elements, even if the timeout has elapsed by
\* then, never the timeout error.
C23_CooperativeTimeout ==
    [][
        pc = "locate" =>
            /\ attempts' = attempts
            /\ lastLocate' = locate(target, InFlight)
            /\ (InFlight # NoSuch /\ FatalOf(target, InFlight) = "") =>
                  /\ pc' = "done"
                  /\ result'.tag = "Ok"
                  /\ result'.elems = locate(target, InFlight).elems
    ]_vars

\* C23 witness: a wait returned its element from a lookup that ended after the
\* timeout had elapsed
C23_Witness ==
    /\ Done
    /\ result = Ok(<<"a">>)
    /\ wait.timeout = DefaultCheckDelay
    /\ checkElapsed <= wait.timeout
    /\ Elapsed > wait.timeout

\* C24 as stated: with timeout 1000 ms and poll interval 250 ms, a lookup that
\* reports no-such-element during the first 800 ms of the wait and succeeds
\* afterwards makes the wait return success, not the timeout error, with a total
\* elapsed time below about 1050 ms.
C24_AsStated ==
    Done => (result = Ok(<<"a">>) /\ Elapsed < ScenarioTimeout + 50)

\* C24: in that scenario, with lookups that take less than 50 ms, the lookups
\* made before 800 ms all report no-such-element and the next deadline check
\* follows the tick due at 1000 ms; the wait returns success, at the sixth
\* lookup and below 1050 ms, exactly when that check reads an elapsed time of
\* no more than 1000 ms; when the tick ends any later the check reads more and
\* the wait returns the timeout error after five lookups.
C24_SuccessOnlyIfTickOnTime ==
    Done =>
        /\ checkElapsed >= ScenarioTimeout
        /\ IF checkElapsed <= ScenarioTimeout
           THEN result = Ok(<<"a">>) /\ attempts = 6 /\ Elapsed < ScenarioTimeout + 50
           ELSE result = Err("WaitTimeout") /\ attempts = 5

\* C24 witness: the sixth lookup, sent 1000 ms after the wait began, found the
\* element
C24_Witness ==
    /\ Done
    /\ wait.timeout = 1000 /\ wait.check_delay = 250
    /\ checkElapsed = 1000
    /\ attempts = 6
    /\ nNone = 5
    /\ result = Ok(<<"a">>)

\* the first n segments of a path
Prefix(path, n) == SubSeq(path, 1, n)

\* the segments of base/session/S/ before the last, empty one
SessionRoot == Front(base_url.path) \o <<"session", session_id.id>>

\* C25: for every command variant, session id, Custom relative path and context
\* element id, the computed endpoint lies under base/session/S/: no relative
\* path and no element id routes a request outside the session's URL subtree.
C25_EndpointUnderSession ==
    (session_id.some /\ cpc \in {"routed", "sent"} /\ url.tag = "Ok") =>
        /\ url.url.host = base_url.host
        /\ Len(url.url.path) > Len(SessionRoot)
        /\ Prefix(url.url.path, Len(SessionRoot)) = SessionRoot

\* what the task has logged, given how its two steps ended
Logged(t) ==
    (IF t.ended = "err" THEN <<"Error while ending session">> ELSE <<>>)
    \o (IF t.closed = "err" THEN <<"Error while issuing shutdown">> ELSE <<>>)

\* C26: on drop of a Client the task first issues the session DELETE (Custom
\* DELETE with empty relative path) and only then closes the underlying client;
\* the close is attempted also when the DELETE fails, and a failure of either
\* step is logged and never propagated: the task goes on and ends normally.
C26_DeleteThenClose ==
    /\ teardown.closed # "no" => (teardown.ended # "no" /\ DeleteSent)
    /\ task = "closed" => teardown.closed # "no"
    /\ log = Logged(teardown)
    /\ teardown.ended # "no" => (handle = "dropped" /\ task \in {"closing", "closed"})

\* C26 witness: the DELETE failed, the failure was logged, and the client was
\* closed all the same
C26_Witness ==
    /\ task = "closed"
    /\ teardown = [ended |-> "err", closed |-> "ok"]
    /\ DeleteSent
    /\ log = <<"Error while ending session">>

\* C27: for every poll interval a caller can pass to check_every, a zero
\* duration included, for_element and for_elements return one of the three wait
\* outcomes; the wait never aborts abnormally because of the interval value.
C27_NoAbortOnInterval == pc # "panicked"

\* whether every axis of a rotation is below 360
InBounds(r) == r.x < FullTurn /\ r.y < FullTurn /\ r.z < FullTurn

\* C28: every DeviceRotation the library hands out or accepts has x, y and z
\* all below 360: DeviceRotation::new returns an invalid-argument error naming
\* the first offending axis (in x, y, z order) when any axis is >= 360 and a
\* value otherwise, and a rotation returned by rotation() also satisfies the
\* bound.
C28_RotationBelowFullTurn ==
    /\ rotOut.tag = "Ok" => InBounds(rotOut.rot)
    /\ rotSent # NoRotation => InBounds(rotSent)
    /\ rpc = "new" =>
          rotOut = IF rotIn[1] >= FullTurn THEN RotErr("InvalidArgument", "x")
                   ELSE IF rotIn[2] >= FullTurn THEN RotErr("InvalidArgument", "y")
                   ELSE IF rotIn[3] >= FullTurn THEN RotErr("InvalidArgument", "z")
                   ELSE RotOk(DeviceRotation(rotIn[1], rotIn[2], rotIn[3]))

\* C29: IOSCanRecordScreen::start_recording with an fps value outside 1..=60
\* returns an invalid-argument error and sends no request to the server; with
\* fps absent or within 1..=60 exactly one start-recording request is sent.
C29_FpsChecked ==
    recpc # "caller" =>
        IF recArgs.fps.some /\ ~(recArgs.fps.v >= 1 /\ recArgs.fps.v <= 60)
        THEN /\ recpc = "returned"
             /\ recOut = RecErr("InvalidArgument", "fps")
             /\ recWire = <<>>
        ELSE /\ Len(recWire) = 1
             /\ recWire[1].method = "POST"
             /\ recWire[1].command = "appium/start_recording_screen"
             /\ recArgs.fps.some =>
                   /\ "videoFps" \in DOMAIN recWire[1].options
                   /\ recWire[1].options["videoFps"] = recArgs.fps.v

\* C29 witness: a rate of 61 frames per second was refused and nothing was sent
C29_Witness ==
    /\ recpc = "returned"
    /\ recArgs.fps = Arg(61)
    /\ recOut = RecErr("InvalidArgument", "fps")
    /\ recWire = <<>>

\* C30: for every battery info value, on Android and on iOS and for every
\* reported state code, is_charging() or is_full() implies is_plugged().
C30_ChargingOrFullIsPlugged ==
    bpc = "probed" => ((probes.is_charging \/ probes.is_full) => probes.is_plugged)

====
